---- MODULE Spec2Model ----
(***************************************************************************)
(* Blog admin page (src/app/(protected)/blog/page.tsx): the component      *)
(* state of Blog(), its event handlers and the publish timer, as a state   *)
(* machine.  Text values are sequences of one-character strings so that    *)
(* trim(), toLowerCase() and generateSlug() are computed, not assumed.     *)
(* Opaque values (ids, image URLs, timestamps, user ids) are strings.      *)
(* An optional value (T | null, T | undefined) is <<>> or <<v>>.           *)
(***************************************************************************)
EXTENDS Integers, Sequences, FiniteSets, TLC

VARIABLES
    currentUserRole,          \* useState<UserRole>, fixed for the session
    allBlogPosts,             \* the post collection, a sequence of records
    activeTab,                \* "all" | "review"
    reviewStatusFilter,       \* sequence of statuses
    reviewAuthorFilter,       \* sequence of author ids
    currentPage,              \* review dashboard page
    allPostsCurrentPage,      \* All Posts page
    searchQuery,              \* text
    selectedCategories,       \* sequence of categories
    showFilters,              \* BOOLEAN
    permissionDeniedDialog,   \* BOOLEAN
    deleteDialogOpen,         \* BOOLEAN
    postToDelete,             \* <<>> or <<post>>
    createDialogOpen,         \* BOOLEAN
    editDialogOpen,           \* BOOLEAN
    postToEdit,               \* <<>> or <<post>>
    imagePreview,             \* <<>> or <<image>>
    fileReaders,              \* the data URLs of the FileReaders that are still reading
    newBlogPost,              \* the create/edit form
    validationErrors,         \* set of the field names that carry an error
    postToPublish,            \* <<>> or <<post>>
    previewDialogOpen,        \* BOOLEAN
    publishConfirmDialogOpen, \* BOOLEAN
    seoChecklist,             \* record of five booleans
    rollbackNote,             \* text
    isPublishing,             \* BOOLEAN
    publishTimer,             \* <<>> or <<id>>: the pending setTimeout and the id it captured
    localStorage              \* the three keys the page writes

postVars == <<currentUserRole, allBlogPosts>>
listVars == <<activeTab, reviewStatusFilter, reviewAuthorFilter, currentPage,
              allPostsCurrentPage, searchQuery, selectedCategories, showFilters>>
formVars == <<createDialogOpen, editDialogOpen, postToEdit, imagePreview,
              newBlogPost, validationErrors>>
deleteVars == <<deleteDialogOpen, postToDelete>>
publishVars == <<postToPublish, previewDialogOpen, publishConfirmDialogOpen,
                 seoChecklist, rollbackNote, isPublishing, publishTimer>>
vars == <<postVars, listVars, formVars, deleteVars, publishVars,
          permissionDeniedDialog, localStorage, fileReaders>>

(***************************************************************************)
(* Bounds of the model.                                                    *)
(***************************************************************************)
\* number of seeded records kept from the fixture list
NumFixture == 2
\* posts created on the page that the collection holds at one time
MaxCreated == 1
\* files dropped on the form whose FileReader has not finished
MaxFileReaders == 1

(***************************************************************************)
(* Program constants.                                                      *)
(***************************************************************************)
itemsPerPage == 10
allPostsItemsPerPage == 10
PlaceholderImage == "/assets/blog1.jpg"
currentUserId == "user-001"
currentUserName == "John Doe"
Roles == {"author", "editor", "admin"}
Statuses == {"draft", "pending_review", "approved", "published", "rejected"}
\* the order of the status filter buttons
StatusButtons == <<"draft", "pending_review", "approved", "rejected", "published">>

(***************************************************************************)
(* Text: String.prototype.trim / toLowerCase and generateSlug.             *)
(***************************************************************************)
UpperLetters == <<"A","B","C","D","E","F","G","H","I","J","K","L","M",
                  "N","O","P","Q","R","S","T","U","V","W","X","Y","Z">>
LowerLetters == <<"a","b","c","d","e","f","g","h","i","j","k","l","m",
                  "n","o","p","q","r","s","t","u","v","w","x","y","z">>
Digits == <<"0","1","2","3","4","5","6","7","8","9">>

Range(s) == {s[i] : i \in DOMAIN s}

\* s without its element at position i
RemoveAt(s, i) == SubSeq(s, 1, i - 1) \o SubSeq(s, i + 1, Len(s))

\* White space of trim(), of \s and of parseInt.  The set holds, in this order, space,
\* tab, line feed, carriage return, form feed, and written as the characters
\* themselves: vertical tab (U+000B), no-break space (U+00A0), ogham space mark
\* (U+1680) and the byte order mark (U+FEFF).  JavaScript also counts U+2000..U+200A,
\* U+2028, U+2029, U+202F, U+205F and U+3000, which a string of a module cannot hold
\* and which lie outside the alphabet of the model's texts.
IsSpaceChar(c) == c \in {" ", "\t", "\n", "\r", "\f", "", " ", " ", "﻿"}
\* \w of a JavaScript regular expression
IsWordChar(c) == c \in Range(UpperLetters) \cup Range(LowerLetters) \cup Range(Digits) \cup {"_"}

\* The alphabet of the model's texts: the printable characters of Basic Latin and of
\* Latin-1 Supplement (U+0020..U+007E, U+00A0..U+00FF), the white-space characters tab,
\* line feed, vertical tab, form feed, carriage return, U+1680 and U+FEFF, and the three
\* Greek sigmas (U+03A3 capital, U+03C3 small, U+03C2 small final), the letters whose
\* lower case depends on their place in the text.  The grave accent (U+0060) is left
\* out: a string of a module cannot hold it.
Alphabet ==
    {
      "\t", "\n", "", "\f", "\r", " ", "!", "\"", "#", "$", "%", "&", "'", "(", ")",
      "*", "+", ",", "-", ".", "/", "0", "1", "2", "3", "4", "5", "6", "7", "8", "9",
      ":", ";", "<", "=", ">", "?", "@", "A", "B", "C", "D", "E", "F", "G", "H", "I",
      "J", "K", "L", "M", "N", "O", "P", "Q", "R", "S", "T", "U", "V", "W", "X", "Y",
      "Z", "[", "\\", "]", "^", "_", "a", "b", "c", "d", "e", "f", "g", "h", "i",
      "j", "k", "l", "m", "n", "o", "p", "q", "r", "s", "t", "u", "v", "w", "x", "y",
      "z", "{", "|", "}", "~", " ", "¡", "¢", "£", "¤", "¥", "¦", "§", "¨", "©", "ª",
      "«", "¬", "­", "®", "¯", "°", "±", "²", "³", "´", "µ", "¶", "·", "¸", "¹", "º",
      "»", "¼", "½", "¾", "¿", "À", "Á", "Â", "Ã", "Ä", "Å", "Æ", "Ç", "È", "É", "Ê",
      "Ë", "Ì", "Í", "Î", "Ï", "Ð", "Ñ", "Ò", "Ó", "Ô", "Õ", "Ö", "×", "Ø", "Ù", "Ú",
      "Û", "Ü", "Ý", "Þ", "ß", "à", "á", "â", "ã", "ä", "å", "æ", "ç", "è", "é", "ê",
      "ë", "ì", "í", "î", "ï", "ð", "ñ", "ò", "ó", "ô", "õ", "ö", "÷", "ø", "ù", "ú",
      "û", "ü", "ý", "þ", "ÿ", " ", "﻿", "Σ", "σ", "ς"
    }

\* the capital letters of Latin-1 Supplement and their small letters
Latin1UpperLetters ==
    <<"À", "Á", "Â", "Ã", "Ä", "Å", "Æ", "Ç", "È", "É", "Ê", "Ë", "Ì", "Í", "Î", "Ï",
      "Ð", "Ñ", "Ò", "Ó", "Ô", "Õ", "Ö", "Ø", "Ù", "Ú", "Û", "Ü", "Ý", "Þ">>
Latin1LowerLetters ==
    <<"à", "á", "â", "ã", "ä", "å", "æ", "ç", "è", "é", "ê", "ë", "ì", "í", "î", "ï",
      "ð", "ñ", "ò", "ó", "ô", "õ", "ö", "ø", "ù", "ú", "û", "ü", "ý", "þ">>

\* String.prototype.toLowerCase of one character out of context.  The operator is
\* defined on Alphabet: a character outside it has no value here.
ToLowerChar(c) ==
    IF c \in Range(UpperLetters)
    THEN LowerLetters[CHOOSE i \in DOMAIN UpperLetters : UpperLetters[i] = c]
    ELSE IF c \in Range(Latin1UpperLetters)
    THEN Latin1LowerLetters[CHOOSE i \in DOMAIN Latin1UpperLetters : Latin1UpperLetters[i] = c]
    ELSE IF c = "Σ" THEN "σ"
    ELSE [a \in Alphabet |-> a][c]

\* The Final_Sigma condition of Unicode's SpecialCasing, which toLowerCase applies: the
\* capital sigma at position i of s comes after a cased letter and is not before one,
\* case-ignorable characters between them not counting.  Within Alphabet the cased
\* letters are the letters of the four tables, U+00AA, U+00B5, U+00BA, U+00DF, U+00FF and
\* the sigmas; the case-ignorable characters are ' . : ^ and U+00A8, U+00AD, U+00AF,
\* U+00B4, U+00B7, U+00B8, U+FEFF.
FinalSigma(s, i) ==
    LET cased == Range(UpperLetters) \cup Range(LowerLetters)
                     \cup Range(Latin1UpperLetters) \cup Range(Latin1LowerLetters)
                     \cup {"ª", "µ", "º", "ß", "ÿ", "Σ", "σ", "ς"}
        ignorable == {"'", ".", ":", "^", "¨", "­", "¯", "´", "·", "¸", "﻿"}
        before == {j \in 1..(i - 1) : s[j] \notin ignorable}
        after == {j \in (i + 1)..Len(s) : s[j] \notin ignorable}
    IN  /\ before # {}
        /\ s[CHOOSE j \in before : \A k \in before : k <= j] \in cased
        /\ after # {} => s[CHOOSE j \in after : \A k \in after : k >= j] \notin cased

\* String.prototype.toLowerCase: every capital letter becomes its small letter, the
\* capital sigma the final small sigma where Final_Sigma holds
ToLowerCase(s) ==
    [i \in DOMAIN s |->
        IF s[i] = "Σ" /\ FinalSigma(s, i) THEN "ς" ELSE ToLowerChar(s[i])]

RECURSIVE TrimStart(_)
TrimStart(s) ==
    IF s = <<>> THEN <<>>
    ELSE IF IsSpaceChar(Head(s)) THEN TrimStart(Tail(s)) ELSE s

RECURSIVE TrimEnd(_)
TrimEnd(s) ==
    IF s = <<>> THEN <<>>
    ELSE IF IsSpaceChar(s[Len(s)]) THEN TrimEnd(SubSeq(s, 1, Len(s) - 1)) ELSE s

Trim(s) == TrimEnd(TrimStart(s))

\* x.trim() === ""
IsBlank(s) == Trim(s) = <<>>

\* .replace(/[^\w\s-]/g, '')
KeepSlugChar(c) == IsWordChar(c) \/ IsSpaceChar(c) \/ c = "-"
StripNonSlugChars(s) == SelectSeq(s, KeepSlugChar)

\* .replace(/[\s_-]+/g, '-')
IsSeparatorChar(c) == IsSpaceChar(c) \/ c = "_" \/ c = "-"
RECURSIVE CollapseSeparators(_)
CollapseSeparators(s) ==
    IF s = <<>> THEN <<>>
    ELSE IF IsSeparatorChar(Head(s))
         THEN IF Len(s) > 1 /\ IsSeparatorChar(s[2])
              THEN CollapseSeparators(Tail(s))
              ELSE <<"-">> \o CollapseSeparators(Tail(s))
         ELSE <<Head(s)>> \o CollapseSeparators(Tail(s))

\* .replace(/^-+|-+$/g, '')
RECURSIVE StripLeadingDashes(_)
StripLeadingDashes(s) ==
    IF s # <<>> /\ Head(s) = "-" THEN StripLeadingDashes(Tail(s)) ELSE s
RECURSIVE StripTrailingDashes(_)
StripTrailingDashes(s) ==
    IF s # <<>> /\ s[Len(s)] = "-"
    THEN StripTrailingDashes(SubSeq(s, 1, Len(s) - 1)) ELSE s

generateSlug(title) ==
    StripTrailingDashes(StripLeadingDashes(
        CollapseSeparators(StripNonSlugChars(Trim(ToLowerCase(title))))))

\* a || b on strings and on string | null
OrText(a, b) == IF a # <<>> THEN a ELSE b
OrImage(a, b) == IF a # "" THEN a ELSE b

\* String(n).padStart(3, "0")
RECURSIVE NatToString(_)
NatToString(n) ==
    IF n < 10 THEN Digits[n + 1]
    ELSE NatToString(n \div 10) \o Digits[(n % 10) + 1]
PadStart3(n) ==
    IF n < 10 THEN "00" \o NatToString(n)
    ELSE IF n < 100 THEN "0" \o NatToString(n)
    ELSE NatToString(n)
\* `#B${String(n).padStart(3, "0")}`
PostId(n) == "#B" \o PadStart3(n)

(***************************************************************************)
(* Permissions: the role-to-boolean lookups.                               *)
(***************************************************************************)
canCreate == currentUserRole = "author" \/ currentUserRole = "editor" \/ currentUserRole = "admin"

canDeleteEditorToo == currentUserRole = "admin" \/ currentUserRole = "editor"
canDelete == currentUserRole = "admin"

canPublish == currentUserRole = "editor" \/ currentUserRole = "admin"

canApproveAnyRole == TRUE
canApprove == currentUserRole = "editor" \/ currentUserRole = "admin"

canReview == currentUserRole = "editor" \/ currentUserRole = "admin"

canEditPostAnyAuthor(post) == TRUE
canEditPost(post) ==
    IF currentUserRole = "admin" THEN TRUE
    ELSE IF currentUserRole = "editor" THEN TRUE
    ELSE IF currentUserRole = "author" /\ post.authorId = currentUserId THEN TRUE
    ELSE FALSE

(***************************************************************************)
(* Records.                                                                *)
(***************************************************************************)
\* new Date().toISOString(): one symbolic instant of the session
NowISO == "2026-01-01T00:00:00.000Z"

\* the form every reset writes; only the status field differs between resets
EmptyForm(status) ==
    [category |-> <<>>, title |-> <<>>, content |-> <<>>, image |-> PlaceholderImage,
     tags |-> <<>>, slug |-> <<>>, seoTitle |-> <<>>, seoDescription |-> <<>>,
     seoKeywords |-> <<>>, status |-> status]

EmptyChecklist ==
    [hasTitle |-> FALSE, hasDescription |-> FALSE, hasKeywords |-> FALSE,
     hasSlug |-> FALSE, hasImage |-> FALSE]

(***************************************************************************)
(* The seeded collection.  The source seeds thirty records #B001..#B030;   *)
(* the model keeps the first NumFixture of them, with their ids, status,   *)
(* author, image and timestamps; the texts are shortened, keeping whether  *)
(* the stored slug is the slug of the title (#B001, #B002, #B012) or not.   *)
(* The rows written out are #B001..#B012.  updatedAt, which no handler     *)
(* reads, is left out of the records.                                      *)
(***************************************************************************)
FixtureRows == <<
    \* #B001
    [category |-> <<"A">>, title |-> <<"A", "I", " ", "R">>, content |-> <<"w", "j">>,
     image |-> "/assets/blog1.jpg", status |-> "published",
     tags |-> <<"AI", "Recruitment", "HR">>, slug |-> <<"a", "i", "-", "r">>,
     seoTitle |-> <<"A", "I">>, seoDescription |-> <<"l">>,
     seoKeywords |-> <<"AI", "recruitment", "job descriptions">>,
     authorId |-> "user-001", authorName |-> "John Doe",
     createdAt |-> "2024-01-15T10:00:00Z",
     publishedAt |-> <<"2024-01-15T10:00:00Z">>],
    \* #B002
    [category |-> <<"A">>, title |-> <<"F", " ", "D">>, content |-> <<"a", "e">>,
     image |-> "/assets/blog2.jpg", status |-> "pending_review",
     tags |-> <<"Onboarding", "Automation">>, slug |-> <<"f", "-", "d">>,
     seoTitle |-> <<"A", "E">>, seoDescription |-> <<"s">>,
     seoKeywords |-> <<"onboarding", "automation">>,
     authorId |-> "user-002", authorName |-> "Jane Smith",
     createdAt |-> "2024-01-16T10:00:00Z",
     publishedAt |-> <<>>],
    \* #B003
    [category |-> <<"A">>, title |-> <<"W", " ", "L">>, content |-> <<"l", "p">>,
     image |-> "/assets/blog3.jpg", status |-> "pending_review",
     tags |-> <<"Learning", "Retention">>, slug |-> <<"l">>,
     seoTitle |-> <<"L">>, seoDescription |-> <<"c">>,
     seoKeywords |-> <<"learning", "retention", "engagement">>,
     authorId |-> "user-001", authorName |-> "John Doe",
     createdAt |-> "2024-01-17T10:00:00Z",
     publishedAt |-> <<>>],
    \* #B004
    [category |-> <<"A">>, title |-> <<"T", " ", "3", "!">>, content |-> <<"e", "p">>,
     image |-> "/assets/blog4.jpg", status |-> "approved",
     tags |-> <<"Feedback", "Performance">>, slug |-> <<"3">>,
     seoTitle |-> <<"R">>, seoDescription |-> <<"h">>,
     seoKeywords |-> <<"feedback", "performance", "reviews">>,
     authorId |-> "user-003", authorName |-> "Bob Johnson",
     createdAt |-> "2024-01-18T10:00:00Z",
     publishedAt |-> <<>>],
    \* #B005
    [category |-> <<"A">>, title |-> <<"S", " ", "M">>, content |-> <<"b", "c">>,
     image |-> "/assets/blog5.jpg", status |-> "rejected",
     tags |-> <<"Succession", "Leadership">>, slug |-> <<"s">>,
     seoTitle |-> <<"S">>, seoDescription |-> <<"b">>,
     seoKeywords |-> <<"succession", "leadership", "planning">>,
     authorId |-> "user-002", authorName |-> "Jane Smith",
     createdAt |-> "2024-01-19T10:00:00Z",
     publishedAt |-> <<>>],
    \* #B006
    [category |-> <<"A">>, title |-> <<"H", " ", "A">>, content |-> <<"u", "l">>,
     image |-> "/assets/blog6.jpg", status |-> "published",
     tags |-> <<"Analytics", "Attrition", "HR">>, slug |-> <<"p">>,
     seoTitle |-> <<"P">>, seoDescription |-> <<"f">>,
     seoKeywords |-> <<"analytics", "attrition", "retention">>,
     authorId |-> "user-004", authorName |-> "Alice White",
     createdAt |-> "2024-01-20T10:00:00Z",
     publishedAt |-> <<>>],
    \* #B007
    [category |-> <<"A">>, title |-> <<"B", " ", "M">>, content |-> <<"c", "o">>,
     image |-> "/assets/blog7.jpg", status |-> "approved",
     tags |-> <<"Performance", "Culture">>, slug |-> <<"p">>,
     seoTitle |-> <<"B">>, seoDescription |-> <<"a">>,
     seoKeywords |-> <<"performance", "culture", "metrics">>,
     authorId |-> "user-005", authorName |-> "Sam Green",
     createdAt |-> "2024-01-21T10:00:00Z",
     publishedAt |-> <<>>],
    \* #B008
    [category |-> <<"A">>, title |-> <<"T", " ", "W">>, content |-> <<"t", "p">>,
     image |-> "/assets/blog8.jpg", status |-> "draft",
     tags |-> <<"Hybrid", "Work", "Productivity">>, slug |-> <<"f">>,
     seoTitle |-> <<"T">>, seoDescription |-> <<"t">>,
     seoKeywords |-> <<"hybrid", "productivity", "engagement">>,
     authorId |-> "user-003", authorName |-> "Bob Johnson",
     createdAt |-> "2024-01-22T10:00:00Z",
     publishedAt |-> <<>>],
    \* #B009
    [category |-> <<"A">>, title |-> <<"P", " ", "I">>, content |-> <<"e", "d">>,
     image |-> "/assets/blog9.jpg", status |-> "published",
     tags |-> <<"Payroll", "Integration", "HR">>, slug |-> <<"p">>,
     seoTitle |-> <<"P">>, seoDescription |-> <<"e">>,
     seoKeywords |-> <<"payroll", "integration", "hr">>,
     authorId |-> "user-001", authorName |-> "John Doe",
     createdAt |-> "2024-01-23T10:00:00Z",
     publishedAt |-> <<>>],
    \* #B010
    [category |-> <<"A">>, title |-> <<"U", " ", "L">>, content |-> <<"l", "l">>,
     image |-> "/assets/blog10.jpg", status |-> "rejected",
     tags |-> <<"Talent", "Analytics", "Leadership">>, slug |-> <<"t">>,
     seoTitle |-> <<"U">>, seoDescription |-> <<"l">>,
     seoKeywords |-> <<"talent", "analytics", "leadership">>,
     authorId |-> "user-002", authorName |-> "Jane Smith",
     createdAt |-> "2024-01-24T10:00:00Z",
     publishedAt |-> <<>>],
    \* #B011
    [category |-> <<"B">>, title |-> <<"W", " ", "O">>, content |-> <<"p", "s">>,
     image |-> "/assets/blog11.jpg", status |-> "published",
     tags |-> <<"Compliance", "Contractor", "Risk">>, slug |-> <<"c">>,
     seoTitle |-> <<"C">>, seoDescription |-> <<"a">>,
     seoKeywords |-> <<"compliance", "contractor", "risk">>,
     authorId |-> "user-003", authorName |-> "Bob Johnson",
     createdAt |-> "2024-01-25T10:00:00Z",
     publishedAt |-> <<>>],
    \* #B012
    [category |-> <<"B">>, title |-> <<"V", " ", "S">>, content |-> <<"t", "d">>,
     image |-> "/assets/blog1.jpg", status |-> "approved",
     tags |-> <<"Vendor", "Performance">>, slug |-> <<"v", "-", "s">>,
     seoTitle |-> <<"V">>, seoDescription |-> <<"u">>,
     seoKeywords |-> <<"vendor", "performance", "scorecards">>,
     authorId |-> "user-004", authorName |-> "Alice White",
     createdAt |-> "2024-01-26T10:00:00Z",
     publishedAt |-> <<>>] >>

WithId(row, id) ==
    [id |-> id, category |-> row.category, title |-> row.title, content |-> row.content,
     image |-> row.image, status |-> row.status, tags |-> row.tags, slug |-> row.slug,
     seoTitle |-> row.seoTitle, seoDescription |-> row.seoDescription,
     seoKeywords |-> row.seoKeywords, authorId |-> row.authorId,
     authorName |-> row.authorName, createdAt |-> row.createdAt,
     publishedAt |-> row.publishedAt]

Fixture == [i \in 1..NumFixture |-> WithId(FixtureRows[i], PostId(i))]

(***************************************************************************)
(* Validation.                                                             *)
(***************************************************************************)
\* the value ReactQuill reports for an empty editor: "<p><br></p>"
EmptyEditorContent == <<"<", "p", ">", "<", "b", "r", ">", "<", "/", "p", ">">>

validateIgnoringEmptyEditor(post) ==
    (IF post.title = <<>> \/ IsBlank(post.title) THEN {"title"} ELSE {})
    \cup (IF post.slug = <<>> \/ IsBlank(post.slug) THEN {"slug"} ELSE {})
    \cup (IF post.image = "" \/ post.image = PlaceholderImage THEN {"image"} ELSE {})
    \cup (IF post.content = <<>> \/ IsBlank(post.content) THEN {"content"} ELSE {})

\* the keys of the errors object validateBlogPost returns
validateBlogPost(post) ==
    (IF post.title = <<>> \/ IsBlank(post.title) THEN {"title"} ELSE {})
    \cup (IF post.slug = <<>> \/ IsBlank(post.slug) THEN {"slug"} ELSE {})
    \cup (IF post.image = "" \/ post.image = PlaceholderImage THEN {"image"} ELSE {})
    \cup (IF post.content = <<>> \/ IsBlank(post.content) \/ post.content = EmptyEditorContent
          THEN {"content"} ELSE {})

\* the checklist validateSEOChecklist computes and stores
SEOChecklistOf(post) ==
    [hasTitle |-> post.seoTitle # <<>> /\ ~IsBlank(post.seoTitle),
     hasDescription |-> post.seoDescription # <<>> /\ ~IsBlank(post.seoDescription),
     hasKeywords |-> Len(post.seoKeywords) > 0,
     hasSlug |-> post.slug # <<>> /\ ~IsBlank(post.slug),
     hasImage |-> post.image # "" /\ post.image # PlaceholderImage]

\* Object.values(checklist).every(Boolean)
ChecklistComplete(c) ==
    c.hasTitle /\ c.hasDescription /\ c.hasKeywords /\ c.hasSlug /\ c.hasImage

(***************************************************************************)
(* Derived lists: what the two tables show.                                *)
(***************************************************************************)
\* String.prototype.includes
Includes(s, q) ==
    \E i \in 0..(Len(s) - Len(q)) : SubSeq(s, i + 1, i + Len(q)) = q

\* Array.prototype.includes
InSeq(s, x) == \E i \in DOMAIN s : s[i] = x

\* Array.prototype.slice(start, end) for 0 <= start
Slice(s, start, end) ==
    SubSeq(s, start + 1, IF end < Len(s) THEN end ELSE Len(s))

\* Math.ceil(n / d)
CeilDiv(n, d) == (n + d - 1) \div d

Indices(s) == [i \in 1..Len(s) |-> i]

matchesAllPosts(post) ==
    LET matchesCategory == Len(selectedCategories) = 0 \/ InSeq(selectedCategories, post.category)
        matchesSearch ==
            \/ searchQuery = <<>>
            \/ Includes(ToLowerCase(post.title), ToLowerCase(searchQuery))
            \/ Includes(ToLowerCase(post.content), ToLowerCase(searchQuery))
            \/ Includes(ToLowerCase(post.category), ToLowerCase(searchQuery))
    IN  matchesCategory /\ matchesSearch

\* positions in allBlogPosts of the rows of blogPosts, in order
blogPostsIdx == SelectSeq(Indices(allBlogPosts), LAMBDA i : matchesAllPosts(allBlogPosts[i]))
blogPosts == [k \in DOMAIN blogPostsIdx |-> allBlogPosts[blogPostsIdx[k]]]

\* a page that starts one page too far
paginateFromNextPage(list, page, perPage) ==
    LET startIndex == page * perPage
        endIndex == startIndex + perPage
    IN  Slice(list, startIndex, endIndex)

\* list.slice((page - 1) * perPage, (page - 1) * perPage + perPage)
paginate(list, page, perPage) ==
    LET startIndex == (page - 1) * perPage
        endIndex == startIndex + perPage
    IN  Slice(list, startIndex, endIndex)

paginatedBlogPostsIdx == paginate(blogPostsIdx, allPostsCurrentPage, allPostsItemsPerPage)

allPostsTotalPages == CeilDiv(Len(blogPostsIdx), allPostsItemsPerPage)

matchesReview(post) ==
    LET matchesStatus == Len(reviewStatusFilter) = 0 \/ InSeq(reviewStatusFilter, post.status)
        matchesAuthor == Len(reviewAuthorFilter) = 0 \/ InSeq(reviewAuthorFilter, post.authorId)
        matchesSearch ==
            \/ searchQuery = <<>>
            \/ Includes(ToLowerCase(post.title), ToLowerCase(searchQuery))
            \/ Includes(ToLowerCase(post.content), ToLowerCase(searchQuery))
    IN  matchesStatus /\ matchesAuthor /\ matchesSearch

reviewPostsIdx == SelectSeq(Indices(allBlogPosts), LAMBDA i : matchesReview(allBlogPosts[i]))
reviewPosts == [k \in DOMAIN reviewPostsIdx |-> allBlogPosts[reviewPostsIdx[k]]]

paginatedReviewPostsIdx == paginate(reviewPostsIdx, currentPage, itemsPerPage)

totalPages == CeilDiv(Len(reviewPostsIdx), itemsPerPage)

\* row i of the collection is on the page the All Posts tab shows
ShownInAllPosts(i) == activeTab = "all" /\ InSeq(paginatedBlogPostsIdx, i)
\* row i of the collection is on the page the Review Dashboard shows
ShownInReview(i) == activeTab = "review" /\ canReview /\ InSeq(paginatedReviewPostsIdx, i)

(***************************************************************************)
(* Dialogs.  Every Dialog of the page is modal: while one is open the page *)
(* under it takes no clicks, so the tabs, tables and the Create button act *)
(* only when no dialog is open.                                            *)
(***************************************************************************)
PageInteractive ==
    /\ ~permissionDeniedDialog
    /\ ~deleteDialogOpen
    /\ ~createDialogOpen
    /\ ~editDialogOpen
    /\ ~previewDialogOpen
    /\ ~publishConfirmDialogOpen

(***************************************************************************)
(* What localStorage holds: strings.  A page number is stored as its       *)
(* decimal digits and read back with parseInt; the review filters are      *)
(* stored as the JSON text of {status: [...], author: [...]}, kept here as *)
(* the sequence of its tokens, and read back with JSON.parse.              *)
(***************************************************************************)
\* Number.prototype.toString of a page number
RECURSIVE ToStringText(_)
ToStringText(n) ==
    IF n < 10 THEN <<Digits[n + 1]>>
    ELSE ToStringText(n \div 10) \o <<Digits[(n % 10) + 1]>>

IsDigit(c) == c \in Range(Digits)
DigitValue(c) == CHOOSE d \in 0..9 : Digits[d + 1] = c

\* the longest prefix of s made of digits
RECURSIVE DigitPrefix(_)
DigitPrefix(s) ==
    IF s = <<>> \/ ~IsDigit(Head(s)) THEN <<>>
    ELSE <<Head(s)>> \o DigitPrefix(Tail(s))

RECURSIVE DigitsValue(_)
DigitsValue(s) ==
    IF s = <<>> THEN 0
    ELSE 10 * DigitsValue(SubSeq(s, 1, Len(s) - 1)) + DigitValue(s[Len(s)])

NaN == "NaN"
\* a load effect that restores no page: 1, whatever is stored
parseIntIgnoringText(s) == 1
\* parseInt(s, 10): leading white space is skipped, one sign is read if present, the
\* digits that follow are read, and anything after them is ignored; NaN when no digit
\* is read
parseInt(s) ==
    LET text == TrimStart(s)
        signed == text # <<>> /\ Head(text) \in {"+", "-"}
        digits == DigitPrefix(IF signed THEN Tail(text) ELSE text)
    IN  IF digits = <<>> THEN NaN
        ELSE IF signed /\ Head(text) = "-" THEN 0 - DigitsValue(digits)
        ELSE DigitsValue(digits)

Punct(v) == [t |-> "punct", v |-> v]
Str(v) == [t |-> "string", v |-> v]

RECURSIVE JSONElements(_)
JSONElements(xs) ==
    IF xs = <<>> THEN <<>>
    ELSE IF Len(xs) = 1 THEN <<Str(xs[1])>>
    ELSE <<Str(Head(xs)), Punct(",")>> \o JSONElements(Tail(xs))

JSONArray(xs) == <<Punct("[")>> \o JSONElements(xs) \o <<Punct("]")>>

\* JSON.stringify({status: reviewStatusFilter, author: reviewAuthorFilter})
JSONStringify(filters) ==
    <<Punct("{"), Str("status"), Punct(":")>> \o JSONArray(filters.status)
        \o <<Punct(","), Str("author"), Punct(":")>> \o JSONArray(filters.author)
        \o <<Punct("}")>>

\* the array whose "[" is token i of text
JSONArrayAt(text, i) ==
    LET close == CHOOSE j \in (i + 1)..Len(text) :
                     /\ text[j] = Punct("]")
                     /\ \A k \in (i + 1)..(j - 1) : text[k] # Punct("]")
        inside == SubSeq(text, i + 1, close - 1)
        strings == SelectSeq(inside, LAMBDA tok : tok.t = "string")
    IN  [k \in DOMAIN strings |-> strings[k].v]

\* the member key of the object text: <<>> when the object has no such key
JSONMember(text, key) ==
    LET at == {i \in 1..(Len(text) - 2) :
                  /\ text[i] = Str(key)
                  /\ text[i + 1] = Punct(":")
                  /\ text[i + 2] = Punct("[")}
    IN  IF at = {} THEN <<>>
        ELSE <<JSONArrayAt(text, (CHOOSE i \in at : \A j \in at : i <= j) + 2)>>

\* JSON.parse of a stored filters text, as the two members the load effect reads
JSONParse(text) ==
    [status |-> JSONMember(text, "status"), author |-> JSONMember(text, "author")]

\* a || b as it would be were an empty array falsy
OrElseEmptyFalsy(a, b) == IF a = <<>> \/ a[1] = <<>> THEN b ELSE a[1]
\* a || b for an optional array a: an array, even an empty one, is truthy
OrElse(a, b) == IF a = <<>> THEN b ELSE a[1]

(***************************************************************************)
(* The effect that saves filters and pages, run after every render whose   *)
(* dependencies changed; it reads the new state.                           *)
(***************************************************************************)
SaveToLocalStorage ==
    localStorage' =
        IF activeTab' = "review"
        THEN [localStorage EXCEPT
                !.filters = <<JSONStringify([status |-> reviewStatusFilter',
                                             author |-> reviewAuthorFilter'])>>,
                !.page = <<ToStringText(currentPage')>>]
        ELSE [localStorage EXCEPT !.allPage = <<ToStringText(allPostsCurrentPage')>>]

(***************************************************************************)
(* Initial state: the useState initialisers, then the mount effects on an  *)
(* empty local storage.                                                    *)
(***************************************************************************)
InitWith(seed) ==
    /\ currentUserRole \in Roles
    /\ allBlogPosts = seed
    /\ activeTab = "all"
    /\ reviewStatusFilter = <<"pending_review">>
    /\ reviewAuthorFilter = <<>>
    /\ currentPage = 1
    /\ allPostsCurrentPage = 1
    /\ searchQuery = <<>>
    /\ selectedCategories = <<>>
    /\ showFilters = FALSE
    /\ permissionDeniedDialog = FALSE
    /\ deleteDialogOpen = FALSE
    /\ postToDelete = <<>>
    /\ createDialogOpen = FALSE
    /\ editDialogOpen = FALSE
    /\ postToEdit = <<>>
    /\ imagePreview = <<>>
    /\ fileReaders = <<>>
    /\ newBlogPost = EmptyForm("draft")
    /\ validationErrors = {}
    /\ postToPublish = <<>>
    /\ previewDialogOpen = FALSE
    /\ publishConfirmDialogOpen = FALSE
    /\ seoChecklist = EmptyChecklist
    /\ rollbackNote = <<>>
    /\ isPublishing = FALSE
    /\ publishTimer = <<>>
    /\ localStorage = [filters |-> <<>>, page |-> <<>>, allPage |-> <<ToStringText(1)>>]

Init == InitWith(Fixture)

(***************************************************************************)
(* Tabs and review filters.                                                *)
(***************************************************************************)
\* <Tabs onValueChange>: the Review Dashboard trigger exists only when canReview
SetActiveTab(v) ==
    /\ PageInteractive
    /\ v # activeTab
    /\ v = "review" => canReview
    /\ activeTab' = v
    /\ UNCHANGED <<postVars, reviewStatusFilter, reviewAuthorFilter, currentPage,
                   allPostsCurrentPage, searchQuery, selectedCategories, showFilters,
                   formVars, deleteVars, publishVars, permissionDeniedDialog>>
    /\ UNCHANGED fileReaders
    /\ SaveToLocalStorage

\* prev.includes(x) ? prev.filter(s => s !== x) : [...prev, x]
Toggle(prev, x) ==
    IF InSeq(prev, x) THEN SelectSeq(prev, LAMBDA y : y # x) ELSE Append(prev, x)

\* a status filter button of the Review Dashboard
ToggleReviewStatus(status) ==
    /\ PageInteractive
    /\ activeTab = "review" /\ canReview
    /\ reviewStatusFilter' = Toggle(reviewStatusFilter, status)
    /\ currentPage' = 1
    /\ UNCHANGED <<postVars, activeTab, reviewAuthorFilter, allPostsCurrentPage, searchQuery,
                   selectedCategories, showFilters, formVars, deleteVars, publishVars,
                   permissionDeniedDialog>>
    /\ UNCHANGED fileReaders
    /\ SaveToLocalStorage

(***************************************************************************)
(* Create, edit and the form.                                              *)
(***************************************************************************)
handleCreate ==
    IF ~canCreate
    THEN /\ permissionDeniedDialog' = TRUE
         /\ UNCHANGED <<postVars, listVars, formVars, deleteVars, publishVars>>
    ELSE /\ createDialogOpen' = TRUE
         /\ validationErrors' = {}
         /\ newBlogPost' = EmptyForm("pending_review")
         /\ imagePreview' = <<>>
         /\ UNCHANGED <<postVars, listVars, editDialogOpen, postToEdit,
                        deleteVars, publishVars, permissionDeniedDialog>>

\* the Create button, rendered when canCreate; the model offers it while the collection
\* holds fewer than MaxCreated posts created on the page
ClickCreate ==
    /\ PageInteractive
    /\ canCreate
    /\ Cardinality({i \in DOMAIN allBlogPosts :
                       allBlogPosts[i].createdAt = NowISO}) < MaxCreated
    /\ handleCreate
    /\ UNCHANGED fileReaders
    /\ SaveToLocalStorage

\* the form handleEdit pre-fills, after the slug effect has run on it
EditFormOf(post) ==
    LET filled == [category |-> post.category, title |-> post.title, content |-> post.content,
                   image |-> post.image, tags |-> post.tags, slug |-> post.slug,
                   seoTitle |-> post.seoTitle, seoDescription |-> post.seoDescription,
                   seoKeywords |-> post.seoKeywords, status |-> post.status]
    IN  IF filled.title # <<>>
        THEN [filled EXCEPT !.slug = generateSlug(filled.title)]
        ELSE filled

handleEdit(post) ==
    IF ~canEditPost(post)
    THEN /\ permissionDeniedDialog' = TRUE
         /\ UNCHANGED <<postVars, listVars, formVars, deleteVars, publishVars>>
    ELSE /\ postToEdit' = <<post>>
         /\ editDialogOpen' = TRUE
         /\ validationErrors' = {}
         /\ newBlogPost' = EditFormOf(post)
         /\ imagePreview' = <<post.image>>
         /\ UNCHANGED <<postVars, listVars, createDialogOpen, deleteVars,
                        publishVars, permissionDeniedDialog>>

\* Edit in a row menu of the All Posts table (the desktop table renders it for every row)
ClickEdit(i) ==
    /\ PageInteractive
    /\ ShownInAllPosts(i)
    /\ handleEdit(allBlogPosts[i])
    /\ UNCHANGED fileReaders
    /\ SaveToLocalStorage

\* the Edit button of a Review Dashboard row, rendered when canEditPost(post)
ClickEditInReview(i) ==
    /\ PageInteractive
    /\ ShownInReview(i)
    /\ canEditPost(allBlogPosts[i])
    /\ handleEdit(allBlogPosts[i])
    /\ UNCHANGED fileReaders
    /\ SaveToLocalStorage

FormDialogOpen == createDialogOpen \/ editDialogOpen

\* an onChange of a form control: setNewBlogPost(prev => ({ ...prev, [field]: value })),
\* followed, when the title changed to a non-empty value, by the slug effect
ChangeFormField(field, value) ==
    /\ FormDialogOpen
    /\ newBlogPost[field] # value
    /\ newBlogPost' =
         IF field = "title" /\ value # <<>>
         THEN [newBlogPost EXCEPT !.title = value, !.slug = generateSlug(value)]
         ELSE [newBlogPost EXCEPT ![field] = value]
    /\ UNCHANGED <<postVars, listVars, createDialogOpen, editDialogOpen, postToEdit,
                   imagePreview, validationErrors, deleteVars, publishVars,
                   permissionDeniedDialog>>
    /\ UNCHANGED fileReaders
    /\ SaveToLocalStorage

\* onDrop of the dropzone of the open form, with one accepted file: a FileReader starts
\* reading it (reader.readAsDataURL(file)) and no state of the component changes; the
\* model offers it while fewer than MaxFileReaders readers are reading
DropImage(dataUrl) ==
    /\ FormDialogOpen
    /\ Len(fileReaders) < MaxFileReaders
    /\ fileReaders' = Append(fileReaders, dataUrl)
    /\ UNCHANGED <<postVars, listVars, formVars, deleteVars, publishVars,
                   permissionDeniedDialog>>
    /\ SaveToLocalStorage

\* reader.onloadend of a reader that has finished, in whatever state the page is by then:
\* setImagePreview(reader.result); setNewBlogPost(prev => ({ ...prev, image: reader.result }))
ReaderLoadEnd(i) ==
    /\ i \in DOMAIN fileReaders
    /\ imagePreview' = <<fileReaders[i]>>
    /\ newBlogPost' = [newBlogPost EXCEPT !.image = fileReaders[i]]
    /\ fileReaders' = RemoveAt(fileReaders, i)
    /\ UNCHANGED <<postVars, listVars, createDialogOpen, editDialogOpen, postToEdit,
                   validationErrors, deleteVars, publishVars, permissionDeniedDialog>>
    /\ SaveToLocalStorage

\* "Remove image", rendered when imagePreview is set
RemoveImage ==
    /\ FormDialogOpen
    /\ imagePreview # <<>>
    /\ imagePreview' = <<>>
    /\ newBlogPost' = [newBlogPost EXCEPT !.image = PlaceholderImage]
    /\ UNCHANGED <<postVars, listVars, createDialogOpen, editDialogOpen, postToEdit,
                   validationErrors, deleteVars, publishVars, permissionDeniedDialog>>
    /\ UNCHANGED fileReaders
    /\ SaveToLocalStorage

\* Cancel, or dismissing the dialog: onOpenChange(false) of the Create dialog
CloseCreateDialog ==
    /\ createDialogOpen
    /\ createDialogOpen' = FALSE
    /\ newBlogPost' = EmptyForm("pending_review")
    /\ imagePreview' = <<>>
    /\ validationErrors' = {}
    /\ UNCHANGED <<postVars, listVars, editDialogOpen, postToEdit, deleteVars,
                   publishVars, permissionDeniedDialog>>
    /\ UNCHANGED fileReaders
    /\ SaveToLocalStorage

\* Cancel, or dismissing the dialog: onOpenChange(false) of the Edit dialog
CloseEditDialog ==
    /\ editDialogOpen
    /\ editDialogOpen' = FALSE
    /\ postToEdit' = <<>>
    /\ newBlogPost' = EmptyForm("pending_review")
    /\ imagePreview' = <<>>
    /\ validationErrors' = {}
    /\ UNCHANGED <<postVars, listVars, createDialogOpen, deleteVars,
                   publishVars, permissionDeniedDialog>>
    /\ UNCHANGED fileReaders
    /\ SaveToLocalStorage

\* imagePreview || newBlogPost.image || fallback
ImageUrl(fallback) ==
    OrImage(IF imagePreview # <<>> THEN imagePreview[1] ELSE "",
            OrImage(newBlogPost.image, fallback))

\* the object an edit writes over a post: the merge of both save handlers
MergeForm(post, status) ==
    [post EXCEPT
        !.category = OrText(newBlogPost.category, post.category),
        !.title = OrText(newBlogPost.title, post.title),
        !.content = OrText(newBlogPost.content, post.content),
        !.image = ImageUrl(postToEdit[1].image),
        !.tags = newBlogPost.tags,
        !.slug = OrText(newBlogPost.slug, post.slug),
        !.seoTitle = OrText(newBlogPost.seoTitle, post.seoTitle),
        !.seoDescription = OrText(newBlogPost.seoDescription, post.seoDescription),
        !.seoKeywords = newBlogPost.seoKeywords,
        !.status = status]

\* a created post that carries no author
NewPostUnattributed(status) ==
    [id |-> PostId(Len(allBlogPosts) + 1),
     category |-> newBlogPost.category,
     title |-> newBlogPost.title,
     content |-> newBlogPost.content,
     image |-> newBlogPost.image,
     status |-> status,
     tags |-> newBlogPost.tags,
     slug |-> newBlogPost.slug,
     seoTitle |-> newBlogPost.seoTitle,
     seoDescription |-> newBlogPost.seoDescription,
     seoKeywords |-> newBlogPost.seoKeywords,
     authorId |-> "",
     authorName |-> "",
     createdAt |-> NowISO,
     publishedAt |-> <<>>]

\* the post a create appends
NewPost(status) ==
    [id |-> PostId(Len(allBlogPosts) + 1),
     category |-> newBlogPost.category,
     title |-> newBlogPost.title,
     content |-> newBlogPost.content,
     image |-> ImageUrl(PlaceholderImage),
     status |-> status,
     tags |-> newBlogPost.tags,
     slug |-> OrText(newBlogPost.slug, generateSlug(newBlogPost.title)),
     seoTitle |-> newBlogPost.seoTitle,
     seoDescription |-> newBlogPost.seoDescription,
     seoKeywords |-> newBlogPost.seoKeywords,
     authorId |-> currentUserId,
     authorName |-> currentUserName,
     createdAt |-> NowISO,
     publishedAt |-> <<>>]

\* an edit saved as draft that left the status alone
SaveAsDraftKeepsStatus(post) == post.status
\* the status an edit saved as draft writes
SaveAsDraftStatus(post) == "draft"

\* the status an edit submitted for review writes
SubmitStatus(edited) == IF edited.status = "draft" THEN "draft" ELSE "pending_review"

handleSaveAsDraft ==
    LET errors == validateBlogPost(newBlogPost) IN
    IF errors # {}
    THEN /\ validationErrors' = errors
         /\ UNCHANGED <<postVars, listVars, createDialogOpen, editDialogOpen, postToEdit,
                        imagePreview, newBlogPost, deleteVars, publishVars,
                        permissionDeniedDialog>>
    ELSE IF postToEdit # <<>>
    THEN /\ allBlogPosts' =
              [k \in DOMAIN allBlogPosts |->
                  IF allBlogPosts[k].id = postToEdit[1].id
                  THEN MergeForm(allBlogPosts[k], SaveAsDraftStatus(allBlogPosts[k]))
                  ELSE allBlogPosts[k]]
         /\ editDialogOpen' = FALSE
         /\ postToEdit' = <<>>
         /\ validationErrors' = {}
         /\ imagePreview' = <<>>
         /\ UNCHANGED <<currentUserRole, listVars, createDialogOpen, newBlogPost,
                        deleteVars, publishVars, permissionDeniedDialog>>
    ELSE /\ allBlogPosts' = Append(allBlogPosts, NewPost("draft"))
         /\ createDialogOpen' = FALSE
         /\ validationErrors' = {}
         /\ newBlogPost' = EmptyForm("draft")
         /\ imagePreview' = <<>>
         /\ UNCHANGED <<currentUserRole, listVars, editDialogOpen, postToEdit,
                        deleteVars, publishVars, permissionDeniedDialog>>

\* the Save as Draft button of the Create and of the Edit dialog
ClickSaveAsDraft ==
    /\ FormDialogOpen
    /\ handleSaveAsDraft
    /\ UNCHANGED fileReaders
    /\ SaveToLocalStorage

handleSubmitForReview ==
    LET errors == validateBlogPost(newBlogPost) IN
    IF errors # {}
    THEN /\ validationErrors' = errors
         /\ UNCHANGED <<postVars, listVars, createDialogOpen, editDialogOpen, postToEdit,
                        imagePreview, newBlogPost, deleteVars, publishVars,
                        permissionDeniedDialog>>
    ELSE IF postToEdit # <<>>
    THEN /\ allBlogPosts' =
              [k \in DOMAIN allBlogPosts |->
                  IF allBlogPosts[k].id = postToEdit[1].id
                  THEN MergeForm(allBlogPosts[k], SubmitStatus(postToEdit[1]))
                  ELSE allBlogPosts[k]]
         /\ editDialogOpen' = FALSE
         /\ postToEdit' = <<>>
         /\ validationErrors' = {}
         /\ newBlogPost' = EmptyForm("pending_review")
         /\ imagePreview' = <<>>
         /\ UNCHANGED <<currentUserRole, listVars, createDialogOpen,
                        deleteVars, publishVars, permissionDeniedDialog>>
    ELSE /\ allBlogPosts' = Append(allBlogPosts, NewPost("pending_review"))
         /\ createDialogOpen' = FALSE
         /\ validationErrors' = {}
         /\ newBlogPost' = EmptyForm("pending_review")
         /\ imagePreview' = <<>>
         /\ postToEdit' = <<>>
         /\ UNCHANGED <<currentUserRole, listVars, editDialogOpen,
                        deleteVars, publishVars, permissionDeniedDialog>>

\* the Submit for Review button of the Create and of the Edit dialog
ClickSubmitForReview ==
    /\ FormDialogOpen
    /\ handleSubmitForReview
    /\ UNCHANGED fileReaders
    /\ SaveToLocalStorage

(***************************************************************************)
(* Delete.                                                                 *)
(***************************************************************************)
handleDelete(post) ==
    IF ~canDelete
    THEN /\ permissionDeniedDialog' = TRUE
         /\ UNCHANGED <<postVars, listVars, formVars, deleteVars, publishVars>>
    ELSE /\ postToDelete' = <<post>>
         /\ deleteDialogOpen' = TRUE
         /\ UNCHANGED <<postVars, listVars, formVars, publishVars, permissionDeniedDialog>>

\* Delete in a row menu of the All Posts table (the desktop table renders it for every row)
ClickDelete(i) ==
    /\ PageInteractive
    /\ ShownInAllPosts(i)
    /\ handleDelete(allBlogPosts[i])
    /\ UNCHANGED fileReaders
    /\ SaveToLocalStorage

\* Cancel, or dismissing the Delete dialog
CloseDeleteDialog ==
    /\ deleteDialogOpen
    /\ deleteDialogOpen' = FALSE
    /\ postToDelete' = <<>>
    /\ UNCHANGED <<postVars, listVars, formVars, publishVars, permissionDeniedDialog>>
    /\ UNCHANGED fileReaders
    /\ SaveToLocalStorage

\* the Delete Post button of the Delete dialog
confirmDelete ==
    /\ deleteDialogOpen
    /\ IF postToDelete # <<>>
       THEN /\ allBlogPosts' = SelectSeq(allBlogPosts, LAMBDA p : p.id # postToDelete[1].id)
            /\ deleteDialogOpen' = FALSE
            /\ postToDelete' = <<>>
            /\ UNCHANGED <<currentUserRole, listVars, formVars, publishVars,
                           permissionDeniedDialog>>
       ELSE UNCHANGED <<postVars, listVars, formVars, deleteVars, publishVars,
                        permissionDeniedDialog>>
    /\ UNCHANGED fileReaders
    /\ SaveToLocalStorage

(***************************************************************************)
(* Approve and reject.                                                     *)
(***************************************************************************)
\* prev.map(p => p.id === post.id ? { ...p, status } : p)
SetStatusById(posts, id, status) ==
    [k \in DOMAIN posts |->
        IF posts[k].id = id
        THEN [posts[k] EXCEPT !.status = status]
        ELSE posts[k]]

\* what handleApprove(post) does: whether it opens the permission dialog, and the collection it leaves
ApproveOutcome(post) ==
    IF ~canApprove
    THEN [denied |-> TRUE, posts |-> allBlogPosts]
    ELSE [denied |-> FALSE, posts |-> SetStatusById(allBlogPosts, post.id, "approved")]

\* what handleReject(post) does
RejectOutcome(post) ==
    IF ~canApprove
    THEN [denied |-> TRUE, posts |-> allBlogPosts]
    ELSE [denied |-> FALSE, posts |-> SetStatusById(allBlogPosts, post.id, "rejected")]

ApplyReviewOutcome(o) ==
    /\ permissionDeniedDialog' = (permissionDeniedDialog \/ o.denied)
    /\ allBlogPosts' = o.posts
    /\ UNCHANGED <<currentUserRole, listVars, formVars, deleteVars, publishVars>>

handleApprove(post) == ApplyReviewOutcome(ApproveOutcome(post))
handleReject(post) == ApplyReviewOutcome(RejectOutcome(post))

\* the Approve and Reject buttons are rendered for a row when
\* post.status === "pending_review" && canApprove
ReviewButtonsShown(post) == post.status = "pending_review" /\ canApprove

ClickApprove(i) ==
    /\ PageInteractive
    /\ ShownInReview(i)
    /\ ReviewButtonsShown(allBlogPosts[i])
    /\ handleApprove(allBlogPosts[i])
    /\ UNCHANGED fileReaders
    /\ SaveToLocalStorage

ClickReject(i) ==
    /\ PageInteractive
    /\ ShownInReview(i)
    /\ ReviewButtonsShown(allBlogPosts[i])
    /\ handleReject(allBlogPosts[i])
    /\ UNCHANGED fileReaders
    /\ SaveToLocalStorage

(***************************************************************************)
(* Preview and publish.                                                    *)
(***************************************************************************)
handlePreview(post) ==
    /\ postToPublish' = <<post>>
    /\ seoChecklist' = SEOChecklistOf(post)
    /\ previewDialogOpen' = TRUE
    /\ UNCHANGED <<postVars, listVars, formVars, deleteVars, publishConfirmDialogOpen,
                   rollbackNote, isPublishing, publishTimer, permissionDeniedDialog>>

\* the Preview button of a Review Dashboard row
ClickPreview(i) ==
    /\ PageInteractive
    /\ ShownInReview(i)
    /\ allBlogPosts[i].status \in {"published", "approved", "pending_review"}
    /\ handlePreview(allBlogPosts[i])
    /\ UNCHANGED fileReaders
    /\ SaveToLocalStorage

\* dismissing the Preview dialog: onOpenChange = setPreviewDialogOpen
DismissPreview ==
    /\ previewDialogOpen
    /\ previewDialogOpen' = FALSE
    /\ UNCHANGED <<postVars, listVars, formVars, deleteVars, postToPublish,
                   publishConfirmDialogOpen, seoChecklist, rollbackNote, isPublishing,
                   publishTimer, permissionDeniedDialog>>
    /\ UNCHANGED fileReaders
    /\ SaveToLocalStorage

\* the Close button of the Preview dialog
ClosePreview ==
    /\ previewDialogOpen
    /\ previewDialogOpen' = FALSE
    /\ postToPublish' = <<>>
    /\ UNCHANGED <<postVars, listVars, formVars, deleteVars, publishConfirmDialogOpen,
                   seoChecklist, rollbackNote, isPublishing, publishTimer,
                   permissionDeniedDialog>>
    /\ UNCHANGED fileReaders
    /\ SaveToLocalStorage

\* what handleStartPublish(post) does: "denied" opens the permission dialog, "opened"
\* opens the confirmation dialog for post, "checked" stores a checklist
StartPublishOutcome(post) ==
    IF ~canPublish
    THEN [denied |-> TRUE, checked |-> FALSE, opened |-> FALSE]
    ELSE IF post.status # "approved"
    THEN [denied |-> FALSE, checked |-> FALSE, opened |-> FALSE]
    ELSE IF ~ChecklistComplete(SEOChecklistOf(post))
    THEN [denied |-> FALSE, checked |-> TRUE, opened |-> FALSE]
    ELSE [denied |-> FALSE, checked |-> TRUE, opened |-> TRUE]

handleStartPublish(post) ==
    LET o == StartPublishOutcome(post) IN
    /\ permissionDeniedDialog' = (permissionDeniedDialog \/ o.denied)
    /\ seoChecklist' = IF o.checked THEN SEOChecklistOf(post) ELSE seoChecklist
    /\ postToPublish' = IF o.opened THEN <<post>> ELSE postToPublish
    /\ publishConfirmDialogOpen' = (publishConfirmDialogOpen \/ o.opened)
    /\ UNCHANGED <<postVars, listVars, formVars, deleteVars, rollbackNote, isPublishing,
                   publishTimer>>

\* the Publish button of a Review Dashboard row, rendered when
\* post.status === "approved" && canPublish
ClickPublish(i) ==
    /\ PageInteractive
    /\ ShownInReview(i)
    /\ allBlogPosts[i].status = "approved" /\ canPublish
    /\ handleStartPublish(allBlogPosts[i])
    /\ previewDialogOpen' = previewDialogOpen
    /\ UNCHANGED fileReaders
    /\ SaveToLocalStorage

\* Publish Now in the Preview dialog: rendered when postToPublish is approved and
\* canPublish, disabled while the checklist is incomplete
ClickPublishNow ==
    /\ previewDialogOpen
    /\ postToPublish # <<>>
    /\ postToPublish[1].status = "approved" /\ canPublish
    /\ ChecklistComplete(seoChecklist)
    /\ IF ~ChecklistComplete(SEOChecklistOf(postToPublish[1]))
       THEN /\ seoChecklist' = SEOChecklistOf(postToPublish[1])
            /\ UNCHANGED <<postVars, listVars, formVars, deleteVars, postToPublish,
                           previewDialogOpen, publishConfirmDialogOpen, rollbackNote,
                           isPublishing, publishTimer, permissionDeniedDialog>>
       ELSE /\ previewDialogOpen' = FALSE
            /\ handleStartPublish(postToPublish[1])
    /\ UNCHANGED fileReaders
    /\ SaveToLocalStorage

\* the rollback note textarea of the confirmation dialog
ChangeRollbackNote(note) ==
    /\ publishConfirmDialogOpen
    /\ rollbackNote # note
    /\ rollbackNote' = note
    /\ UNCHANGED <<postVars, listVars, formVars, deleteVars, postToPublish, previewDialogOpen,
                   publishConfirmDialogOpen, seoChecklist, isPublishing, publishTimer,
                   permissionDeniedDialog>>
    /\ UNCHANGED fileReaders
    /\ SaveToLocalStorage

\* Cancel (disabled while publishing), or dismissing the confirmation dialog
\* (ignored while publishing)
CancelAllowedWhilePublishing == TRUE
CancelAllowed == ~isPublishing

CancelPublish ==
    /\ publishConfirmDialogOpen
    /\ CancelAllowed
    /\ publishConfirmDialogOpen' = FALSE
    /\ postToPublish' = <<>>
    /\ rollbackNote' = <<>>
    /\ UNCHANGED <<postVars, listVars, formVars, deleteVars, previewDialogOpen,
                   seoChecklist, isPublishing, publishTimer, permissionDeniedDialog>>
    /\ UNCHANGED fileReaders
    /\ SaveToLocalStorage

\* Confirm & Publish: disabled while publishing or while the checklist is incomplete;
\* handleConfirmPublish returns when postToPublish is null, else starts the timer
handleConfirmPublish ==
    /\ publishConfirmDialogOpen
    /\ ~isPublishing
    /\ ChecklistComplete(seoChecklist)
    /\ IF postToPublish = <<>>
       THEN UNCHANGED <<isPublishing, publishTimer>>
       ELSE /\ isPublishing' = TRUE
            /\ publishTimer' = <<postToPublish[1].id>>
    /\ UNCHANGED <<postVars, listVars, formVars, deleteVars, postToPublish, previewDialogOpen,
                   publishConfirmDialogOpen, seoChecklist, rollbackNote,
                   permissionDeniedDialog>>
    /\ UNCHANGED fileReaders
    /\ SaveToLocalStorage

\* the collection the timer callback writes
PublishKeepsStatus(posts, id) == posts
PublishById(posts, id) ==
    [k \in DOMAIN posts |->
        IF posts[k].id = id
        THEN [posts[k] EXCEPT !.status = "published", !.publishedAt = <<NowISO>>]
        ELSE posts[k]]

\* the setTimeout callback of handleConfirmPublish
PublishTimerFires ==
    /\ publishTimer # <<>>
    /\ allBlogPosts' = PublishById(allBlogPosts, publishTimer[1])
    /\ isPublishing' = FALSE
    /\ publishConfirmDialogOpen' = FALSE
    /\ postToPublish' = <<>>
    /\ rollbackNote' = <<>>
    /\ activeTab' = "all"
    /\ publishTimer' = <<>>
    /\ UNCHANGED <<currentUserRole, reviewStatusFilter, reviewAuthorFilter, currentPage,
                   allPostsCurrentPage, searchQuery, selectedCategories, showFilters,
                   formVars, deleteVars, previewDialogOpen, seoChecklist,
                   permissionDeniedDialog>>
    /\ UNCHANGED fileReaders
    /\ SaveToLocalStorage

(***************************************************************************)
(* The permission dialog.                                                  *)
(***************************************************************************)
\* "Got it", or dismissing the dialog
ClosePermissionDenied ==
    /\ permissionDeniedDialog
    /\ permissionDeniedDialog' = FALSE
    /\ UNCHANGED <<postVars, listVars, formVars, deleteVars, publishVars>>
    /\ UNCHANGED fileReaders
    /\ SaveToLocalStorage

(***************************************************************************)
(* Search, category filter, author filter and the two paginations.         *)
(***************************************************************************)
\* a search box that leaves the page where it is
ChangeSearchQueryKeepingPage(value) ==
    /\ PageInteractive
    /\ activeTab = "all"
    /\ value # searchQuery
    /\ searchQuery' = value
    /\ UNCHANGED <<postVars, activeTab, reviewStatusFilter, reviewAuthorFilter, currentPage,
                   allPostsCurrentPage, selectedCategories, showFilters, formVars,
                   deleteVars, publishVars, permissionDeniedDialog>>
    /\ UNCHANGED fileReaders
    /\ SaveToLocalStorage

\* onChange of the search box of the All Posts tab
ChangeSearchQuery(value) ==
    /\ PageInteractive
    /\ activeTab = "all"
    /\ value # searchQuery
    /\ searchQuery' = value
    /\ allPostsCurrentPage' = 1
    /\ UNCHANGED <<postVars, activeTab, reviewStatusFilter, reviewAuthorFilter, currentPage,
                   selectedCategories, showFilters, formVars, deleteVars, publishVars,
                   permissionDeniedDialog>>
    /\ UNCHANGED fileReaders
    /\ SaveToLocalStorage

\* the Filter button of the All Posts tab
ToggleShowFilters ==
    /\ PageInteractive
    /\ activeTab = "all"
    /\ showFilters' = ~showFilters
    /\ UNCHANGED <<postVars, activeTab, reviewStatusFilter, reviewAuthorFilter, currentPage,
                   allPostsCurrentPage, searchQuery, selectedCategories, formVars,
                   deleteVars, publishVars, permissionDeniedDialog>>
    /\ UNCHANGED fileReaders
    /\ SaveToLocalStorage

categories == {allBlogPosts[i].category : i \in DOMAIN allBlogPosts}
uniqueAuthors == {allBlogPosts[i].authorId : i \in DOMAIN allBlogPosts}

\* FilterTool, rendered when showFilters: a row of the category list
handleCategoryToggle(category) ==
    /\ PageInteractive
    /\ activeTab = "all" /\ showFilters
    /\ category \in categories
    /\ selectedCategories' = Toggle(selectedCategories, category)
    /\ allPostsCurrentPage' = 1
    /\ UNCHANGED <<postVars, activeTab, reviewStatusFilter, reviewAuthorFilter, currentPage,
                   searchQuery, showFilters, formVars, deleteVars, publishVars,
                   permissionDeniedDialog>>
    /\ UNCHANGED fileReaders
    /\ SaveToLocalStorage

\* FilterTool: "Clear All", rendered when a category is selected
handleClearFilters ==
    /\ PageInteractive
    /\ activeTab = "all" /\ showFilters
    /\ Len(selectedCategories) > 0
    /\ selectedCategories' = <<>>
    /\ allPostsCurrentPage' = 1
    /\ UNCHANGED <<postVars, activeTab, reviewStatusFilter, reviewAuthorFilter, currentPage,
                   searchQuery, showFilters, formVars, deleteVars, publishVars,
                   permissionDeniedDialog>>
    /\ UNCHANGED fileReaders
    /\ SaveToLocalStorage

\* a row of the author list of the Review Dashboard
ToggleReviewAuthor(authorId) ==
    /\ PageInteractive
    /\ activeTab = "review" /\ canReview
    /\ authorId \in uniqueAuthors
    /\ reviewAuthorFilter' = Toggle(reviewAuthorFilter, authorId)
    /\ currentPage' = 1
    /\ UNCHANGED <<postVars, activeTab, reviewStatusFilter, allPostsCurrentPage, searchQuery,
                   selectedCategories, showFilters, formVars, deleteVars, publishVars,
                   permissionDeniedDialog>>
    /\ UNCHANGED fileReaders
    /\ SaveToLocalStorage

Max(a, b) == IF a > b THEN a ELSE b
Min(a, b) == IF a < b THEN a ELSE b

\* the numbered buttons of a pagination: at most five, around the current page
PageButtons(current, total) ==
    { IF total <= 5 THEN i + 1
      ELSE IF current <= 3 THEN i + 1
      ELSE IF current >= total - 2 THEN total - 4 + i
      ELSE current - 2 + i : i \in 0..(Min(5, total) - 1) }

\* the pagination of the All Posts tab, rendered when there is more than one page
AllPostsPaginationShown == PageInteractive /\ activeTab = "all" /\ allPostsTotalPages > 1

SetAllPostsCurrentPage(pageNum) ==
    /\ allPostsCurrentPage' = pageNum
    /\ UNCHANGED <<postVars, activeTab, reviewStatusFilter, reviewAuthorFilter, currentPage,
                   searchQuery, selectedCategories, showFilters, formVars, deleteVars,
                   publishVars, permissionDeniedDialog>>
    /\ UNCHANGED fileReaders
    /\ SaveToLocalStorage

AllPostsPreviousPage ==
    /\ AllPostsPaginationShown
    /\ allPostsCurrentPage # 1
    /\ SetAllPostsCurrentPage(Max(1, allPostsCurrentPage - 1))

AllPostsNextPage ==
    /\ AllPostsPaginationShown
    /\ allPostsCurrentPage # allPostsTotalPages
    /\ SetAllPostsCurrentPage(Min(allPostsTotalPages, allPostsCurrentPage + 1))

AllPostsGoToPage(pageNum) ==
    /\ AllPostsPaginationShown
    /\ pageNum \in PageButtons(allPostsCurrentPage, allPostsTotalPages)
    /\ pageNum # allPostsCurrentPage
    /\ SetAllPostsCurrentPage(pageNum)

\* the pagination of the Review Dashboard
ReviewPaginationShown ==
    PageInteractive /\ activeTab = "review" /\ canReview /\ totalPages > 1

SetCurrentPage(pageNum) ==
    /\ currentPage' = pageNum
    /\ UNCHANGED <<postVars, activeTab, reviewStatusFilter, reviewAuthorFilter,
                   allPostsCurrentPage, searchQuery, selectedCategories, showFilters,
                   formVars, deleteVars, publishVars, permissionDeniedDialog>>
    /\ UNCHANGED fileReaders
    /\ SaveToLocalStorage

ReviewPreviousPage ==
    /\ ReviewPaginationShown
    /\ currentPage # 1
    /\ SetCurrentPage(Max(1, currentPage - 1))

ReviewNextPage ==
    /\ ReviewPaginationShown
    /\ currentPage # totalPages
    /\ SetCurrentPage(Min(totalPages, currentPage + 1))

ReviewGoToPage(pageNum) ==
    /\ ReviewPaginationShown
    /\ pageNum \in PageButtons(currentPage, totalPages)
    /\ pageNum # currentPage
    /\ SetCurrentPage(pageNum)

(***************************************************************************)
(* Reload: the component is constructed again on the local storage the     *)
(* page left.  Every useState takes its initial value, the pending publish *)
(* timer is gone with the old page, the load effect restores the review    *)
(* filters and the two page numbers from the keys that are present, and    *)
(* the save effect of the All Posts tab writes the restored page back.     *)
(***************************************************************************)
Reload(seed) ==
    /\ UNCHANGED currentUserRole
    /\ allBlogPosts' = seed
    /\ activeTab' = "all"
    /\ IF localStorage.filters # <<>>
       THEN LET filters == JSONParse(localStorage.filters[1])
            IN  /\ reviewStatusFilter' = OrElse(filters.status, <<"pending_review">>)
                /\ reviewAuthorFilter' = OrElse(filters.author, <<>>)
       ELSE /\ reviewStatusFilter' = <<"pending_review">>
            /\ reviewAuthorFilter' = <<>>
    /\ currentPage' =
           IF localStorage.page # <<>> THEN parseInt(localStorage.page[1]) ELSE 1
    /\ allPostsCurrentPage' =
           IF localStorage.allPage # <<>> THEN parseInt(localStorage.allPage[1]) ELSE 1
    /\ searchQuery' = <<>>
    /\ selectedCategories' = <<>>
    /\ showFilters' = FALSE
    /\ permissionDeniedDialog' = FALSE
    /\ deleteDialogOpen' = FALSE
    /\ postToDelete' = <<>>
    /\ createDialogOpen' = FALSE
    /\ editDialogOpen' = FALSE
    /\ postToEdit' = <<>>
    /\ imagePreview' = <<>>
    /\ newBlogPost' = EmptyForm("draft")
    /\ validationErrors' = {}
    /\ postToPublish' = <<>>
    /\ previewDialogOpen' = FALSE
    /\ publishConfirmDialogOpen' = FALSE
    /\ seoChecklist' = EmptyChecklist
    /\ rollbackNote' = <<>>
    /\ isPublishing' = FALSE
    /\ publishTimer' = <<>>
    /\ fileReaders' = <<>>
    /\ SaveToLocalStorage

(***************************************************************************)
(* Inputs of the workflow specification.                                   *)
(***************************************************************************)
DataUrlInputs == {"data:image/png;base64,AAAA"}
FormInputs == {<<"title", <<"N", "!">>>>, <<"content", <<"c">>>>}
RollbackNoteInputs == {<<"v">>}
StatusFilterInputs == {"pending_review"}
PublishFilterInputs == {"pending_review", "approved"}

\* The workflow specification: every operation on posts, for each role.  Form fields
\* are changed in the Create dialog only (an edit saves the form handleEdit filled), and
\* the Preview dialog is closed with its Close button.
Next ==
    \/ \E v \in {"all", "review"} : SetActiveTab(v)
    \/ \E st \in StatusFilterInputs : ToggleReviewStatus(st)
    \/ ClickCreate
    \/ \E i \in DOMAIN allBlogPosts : ClickEdit(i)
    \/ \E i \in DOMAIN allBlogPosts : ClickEditInReview(i)
    \/ \E c \in FormInputs : createDialogOpen /\ ChangeFormField(c[1], c[2])
    \/ \E d \in DataUrlInputs : createDialogOpen /\ DropImage(d)
    \/ \E i \in DOMAIN fileReaders : ReaderLoadEnd(i)
    \/ createDialogOpen /\ RemoveImage
    \/ CloseCreateDialog
    \/ CloseEditDialog
    \/ ClickSaveAsDraft
    \/ ClickSubmitForReview
    \/ \E i \in DOMAIN allBlogPosts : ClickDelete(i)
    \/ CloseDeleteDialog
    \/ confirmDelete
    \/ \E i \in DOMAIN allBlogPosts : ClickApprove(i)
    \/ \E i \in DOMAIN allBlogPosts : ClickReject(i)
    \/ \E i \in DOMAIN allBlogPosts : ClickPreview(i)
    \/ ClosePreview
    \/ \E i \in DOMAIN allBlogPosts : ClickPublish(i)
    \/ ClickPublishNow
    \/ \E n \in RollbackNoteInputs : ChangeRollbackNote(n)
    \/ CancelPublish
    \/ handleConfirmPublish
    \/ PublishTimerFires
    \/ ClosePermissionDenied

Spec == Init /\ [][Next]_vars

\* The publication specification: the Review Dashboard, the publish flow with every
\* way of closing the Preview dialog, and Delete.  The browser runs a pending timer
\* callback, so the timer step is weakly fair.
NextPublish ==
    \/ \E v \in {"all", "review"} : SetActiveTab(v)
    \/ \E st \in PublishFilterInputs : ToggleReviewStatus(st)
    \/ \E i \in DOMAIN allBlogPosts : ClickDelete(i)
    \/ CloseDeleteDialog
    \/ confirmDelete
    \/ ClosePermissionDenied
    \/ \E i \in DOMAIN allBlogPosts : ClickApprove(i)
    \/ \E i \in DOMAIN allBlogPosts : ClickReject(i)
    \/ \E i \in DOMAIN allBlogPosts : ClickPreview(i)
    \/ DismissPreview
    \/ ClosePreview
    \/ \E i \in DOMAIN allBlogPosts : ClickPublish(i)
    \/ ClickPublishNow
    \/ \E n \in RollbackNoteInputs : ChangeRollbackNote(n)
    \/ CancelPublish
    \/ handleConfirmPublish
    \/ PublishTimerFires

SpecPublish == Init /\ [][NextPublish]_vars /\ WF_vars(PublishTimerFires)

\* The form specification: the Create and Edit dialogs with valid and invalid values
\* typed into the title, slug and content fields, and both save buttons.
ValidationInputs ==
    { <<"title", <<"N", "!">>>>, <<"title", <<" ">>>>, <<"title", <<>>>>,
      <<"slug", <<>>>>, <<"slug", <<" ">>>>,
      <<"content", <<"c">>>>, <<"content", <<" ">>>>, <<"content", EmptyEditorContent>>,
      <<"content", <<>>>> }

\* values typed over a post's own in the Edit dialog, where the image can be removed
\* and no file is dropped (a file dropped on the Create form can finish loading here);
\* the SEO title is a text input and can be cleared
EditValidationInputs ==
    { <<"title", <<" ">>>>, <<"content", EmptyEditorContent>>, <<"seoTitle", <<>>>> }

NextForm ==
    \/ ClickCreate
    \/ \E i \in DOMAIN allBlogPosts : ClickEdit(i)
    \/ \E c \in ValidationInputs : createDialogOpen /\ ChangeFormField(c[1], c[2])
    \/ \E c \in EditValidationInputs : editDialogOpen /\ ChangeFormField(c[1], c[2])
    \/ \E d \in DataUrlInputs : createDialogOpen /\ DropImage(d)
    \/ \E i \in DOMAIN fileReaders : ReaderLoadEnd(i)
    \/ RemoveImage
    \/ CloseCreateDialog
    \/ CloseEditDialog
    \/ ClickSaveAsDraft
    \/ ClickSubmitForReview
    \/ ClosePermissionDenied

SpecForm == Init /\ [][NextForm]_vars

(***************************************************************************)
(* The rework specification: a post is created, submitted, rejected and    *)
(* opened for editing again.  The title typed in the Create dialog has no  *)
(* word character, so the slug effect leaves the slug empty and the slug   *)
(* is typed by hand; the Edit dialog regenerates the slug from the title   *)
(* when it opens, and a slug can be typed there too.                       *)
(***************************************************************************)
ReworkCreateInputs == {<<"title", <<"!">>>>, <<"slug", <<"s">>>>, <<"content", <<"c">>>>}
ReworkEditInputs == {<<"slug", <<"s">>>>}

NextRework ==
    \/ \E v \in {"all", "review"} : SetActiveTab(v)
    \/ ClickCreate
    \/ \E c \in ReworkCreateInputs : createDialogOpen /\ ChangeFormField(c[1], c[2])
    \/ \E c \in ReworkEditInputs : editDialogOpen /\ ChangeFormField(c[1], c[2])
    \/ \E d \in DataUrlInputs : createDialogOpen /\ DropImage(d)
    \/ \E i \in DOMAIN fileReaders : ReaderLoadEnd(i)
    \/ CloseCreateDialog
    \/ ClickSubmitForReview
    \/ ClickSaveAsDraft
    \/ \E i \in DOMAIN allBlogPosts : ClickReject(i)
    \/ \E i \in DOMAIN allBlogPosts : ClickEdit(i)
    \/ \E i \in DOMAIN allBlogPosts : ClickEditInReview(i)
    \/ CloseEditDialog
    \/ ClosePermissionDenied

SpecRework == Init /\ [][NextRework]_vars

(***************************************************************************)
(* The list specification: the two tables, their filters and paginations,  *)
(* and reload, over a collection long enough for a second page.  The       *)
(* collection changes by review decisions, by deletion and by reload; a    *)
(* deletion is requested on the full collection only, so that at most one  *)
(* seeded record is missing at a time.                                     *)
(***************************************************************************)
\* number of seeded records the list specification starts from
NumListFixture == 11
ListFixture == [i \in 1..NumListFixture |-> WithId(FixtureRows[i], PostId(i))]
InitList == InitWith(ListFixture)

SearchInputs == {<<>>, <<"A">>}
ListStatusInputs == {"pending_review"}
ListAuthorInputs == {"user-002"}

NextList ==
    \/ \E v \in {"all", "review"} : SetActiveTab(v)
    \/ \E st \in ListStatusInputs : ToggleReviewStatus(st)
    \/ \E a \in ListAuthorInputs : ToggleReviewAuthor(a)
    \/ \E q \in SearchInputs : ChangeSearchQuery(q)
    \/ ToggleShowFilters
    \/ \E c \in categories : handleCategoryToggle(c)
    \/ handleClearFilters
    \/ AllPostsPreviousPage
    \/ AllPostsNextPage
    \/ \E n \in 1..allPostsTotalPages : AllPostsGoToPage(n)
    \/ ReviewPreviousPage
    \/ ReviewNextPage
    \/ \E n \in 1..totalPages : ReviewGoToPage(n)
    \/ \E i \in DOMAIN allBlogPosts :
           Len(allBlogPosts) = NumListFixture /\ ClickDelete(i)
    \/ CloseDeleteDialog
    \/ confirmDelete
    \/ ClosePermissionDenied
    \/ \E i \in DOMAIN allBlogPosts : ClickApprove(i)
    \/ \E i \in DOMAIN allBlogPosts : ClickReject(i)
    \/ Reload(ListFixture)

SpecList == InitList /\ [][NextList]_vars

(***************************************************************************)
(* The search specification: a post is created whose title holds a Latin-1 *)
(* capital and ends in a capital sigma, and the search box receives texts  *)
(* of several letters in mixed case and a capital sigma of its own.        *)
(***************************************************************************)
SearchCreateInputs == {<<"title", <<"b", "É", "Σ">>>>, <<"content", <<"c">>>>}
SearchTextInputs == {<<>>, <<"f", " ", "D">>, <<"B", "é">>, <<"Σ">>}

NextSearch ==
    \/ \E v \in {"all", "review"} : SetActiveTab(v)
    \/ \E st \in StatusFilterInputs : ToggleReviewStatus(st)
    \/ \E q \in SearchTextInputs : ChangeSearchQuery(q)
    \/ ClickCreate
    \/ \E c \in SearchCreateInputs : createDialogOpen /\ ChangeFormField(c[1], c[2])
    \/ \E d \in DataUrlInputs : createDialogOpen /\ DropImage(d)
    \/ \E i \in DOMAIN fileReaders : ReaderLoadEnd(i)
    \/ CloseCreateDialog
    \/ ClickSaveAsDraft
    \/ ClickSubmitForReview

SpecSearch == Init /\ [][NextSearch]_vars


\* ---------------------------------------------------------------------------------
\* Properties of the editorial workflow
\* ---------------------------------------------------------------------------------

\* The positions of the collection a step keeps: every handler maps over the
\* collection or appends to it, except confirmDelete, which filters it.
KeptPositions ==
    IF Len(allBlogPosts') >= Len(allBlogPosts) THEN DOMAIN allBlogPosts ELSE {}

WorkflowEdges ==
    { <<"draft", "pending_review">>, <<"pending_review", "approved">>,
      <<"approved", "published">>, <<"pending_review", "rejected">>,
      <<"rejected", "draft">> }

\* C1: the status of a post changes only along draft -> pending_review -> approved ->
\* published, pending_review -> rejected and rejected -> draft.
C1_StatusFollowsWorkflow ==
    [][\A i \in KeptPositions :
          \/ allBlogPosts'[i].status = allBlogPosts[i].status
          \/ <<allBlogPosts[i].status, allBlogPosts'[i].status>> \in WorkflowEdges]_vars

\* C2: a post becomes published only if its own SEO checklist is complete: SEO title,
\* meta description, a keyword, a featured image other than the placeholder, a slug.
C2_PublishedOnlyWithSEO ==
    [][\A i \in KeptPositions :
          (allBlogPosts[i].status # "published" /\ allBlogPosts'[i].status = "published")
              => ChecklistComplete(SEOChecklistOf(allBlogPosts'[i]))]_vars

\* C3: a post becomes published only from approved, and starting the publish flow for
\* a post in another status opens no confirmation dialog.
C3_PublishedOnlyFromApproved ==
    [][/\ \A i \in KeptPositions :
             (allBlogPosts[i].status # "published" /\ allBlogPosts'[i].status = "published")
                 => allBlogPosts[i].status = "approved"
       /\ \A i \in DOMAIN allBlogPosts :
             allBlogPosts[i].status # "approved"
                 => ~StartPublishOutcome(allBlogPosts[i]).opened]_vars

\* C4: editing a draft post and choosing Submit for Review, with a valid form, puts the
\* post in pending_review, the first step of the walk to published.
C4_DraftSubmitsToReview ==
    [][(/\ ClickSubmitForReview
        /\ editDialogOpen
        /\ postToEdit # <<>>
        /\ postToEdit[1].status = "draft"
        /\ validateBlogPost(newBlogPost) = {})
          => \A i \in KeptPositions :
                allBlogPosts[i].id = postToEdit[1].id
                    => allBlogPosts'[i].status = "pending_review"]_vars

\* C5: a post becomes approved or rejected only from pending_review, and an approve or
\* reject step changes the status of one post at most.
C5_ReviewOnlyFromPending ==
    [][/\ \A i \in KeptPositions :
             (/\ allBlogPosts'[i].status \in {"approved", "rejected"}
              /\ allBlogPosts'[i].status # allBlogPosts[i].status)
                 => allBlogPosts[i].status = "pending_review"
       /\ (\E j \in DOMAIN allBlogPosts : ClickApprove(j) \/ ClickReject(j))
             => Cardinality({ i \in KeptPositions :
                    allBlogPosts'[i].status # allBlogPosts[i].status }) <= 1]_vars


\* C6: while the role is author or editor no step removes or replaces a post of the
\* collection, the Delete dialog is never open and postToDelete is never set, and a
\* delete request opens the permission dialog and leaves the collection, postToDelete
\* and the Delete dialog as they were.
C6_OnlyAdminsDelete ==
    /\ [](currentUserRole # "admin" => (~deleteDialogOpen /\ postToDelete = <<>>))
    /\ [][currentUserRole # "admin" =>
            /\ Len(allBlogPosts') >= Len(allBlogPosts)
            /\ \A i \in DOMAIN allBlogPosts : allBlogPosts'[i].id = allBlogPosts[i].id
            /\ \A i \in DOMAIN allBlogPosts :
                  ClickDelete(i) =>
                      /\ permissionDeniedDialog'
                      /\ UNCHANGED <<allBlogPosts, postToDelete, deleteDialogOpen>>]_vars

\* an editor's delete request was refused
C6_Witness ==
    /\ currentUserRole = "editor"
    /\ permissionDeniedDialog
    /\ Len(allBlogPosts) = NumFixture

\* C7: while the role is author no step changes a post's status to approved, rejected
\* or published, the active tab is never the Review Dashboard, and handleApprove,
\* handleReject and handleStartPublish, called for any post, open the permission
\* dialog, leave the collection as it is and open no confirmation dialog.
C7_AuthorsNeverReview ==
    /\ [](currentUserRole = "author" =>
            /\ activeTab # "review"
            /\ \A i \in DOMAIN allBlogPosts :
                  /\ ApproveOutcome(allBlogPosts[i]) =
                        [denied |-> TRUE, posts |-> allBlogPosts]
                  /\ RejectOutcome(allBlogPosts[i]) =
                        [denied |-> TRUE, posts |-> allBlogPosts]
                  /\ StartPublishOutcome(allBlogPosts[i]) =
                        [denied |-> TRUE, checked |-> FALSE, opened |-> FALSE])
    /\ [][currentUserRole = "author" =>
            \A i \in KeptPositions :
               allBlogPosts'[i].status \in {"approved", "rejected", "published"}
                   => allBlogPosts'[i].status = allBlogPosts[i].status]_vars

\* an author has a post of their own waiting for review, next to the fixture's
C7_Witness ==
    /\ currentUserRole = "author"
    /\ Len(allBlogPosts) > NumFixture
    /\ allBlogPosts[Len(allBlogPosts)].status = "pending_review"
    /\ allBlogPosts[Len(allBlogPosts)].authorId = currentUserId

\* C8: while the role is author a post of another author keeps every field, and an
\* edit request for it opens the permission dialog and not the Edit dialog; an edit
\* request by an editor or admin opens the Edit dialog for the post, whoever wrote it.
C8_AuthorsEditOwnPosts ==
    [][/\ currentUserRole = "author" =>
             \A i \in DOMAIN allBlogPosts :
                allBlogPosts[i].authorId # currentUserId =>
                    /\ i \in DOMAIN allBlogPosts'
                    /\ allBlogPosts'[i] = allBlogPosts[i]
                    /\ ClickEdit(i) =>
                          /\ permissionDeniedDialog'
                          /\ ~editDialogOpen'
                          /\ UNCHANGED <<postToEdit, newBlogPost>>
       /\ currentUserRole # "author" =>
             \A i \in DOMAIN allBlogPosts :
                ClickEdit(i) =>
                    /\ editDialogOpen'
                    /\ postToEdit' = <<allBlogPosts[i]>>
                    /\ ~permissionDeniedDialog']_vars

\* an author's edit request for another author's post was refused, after the author
\* had edited a post of their own
C8_Witness ==
    /\ currentUserRole = "author"
    /\ permissionDeniedDialog
    /\ ~editDialogOpen
    /\ \E i \in DOMAIN allBlogPosts :
          allBlogPosts[i].authorId = currentUserId /\ allBlogPosts[i].status = "draft"
    /\ \E i \in DOMAIN allBlogPosts : allBlogPosts[i].authorId # currentUserId


\* C9: from Confirm & Publish until the timer fires the post is still approved, the
\* confirmation dialog is open and postToPublish is set, and no step but the timer's
\* ends that; a post becomes published only in the timer's step, which sets
\* publishedAt, ends isPublishing, closes the dialog, clears postToPublish and the
\* rollback note, and shows All Posts.
C9_TimedTwoPhasePublish ==
    /\ [](isPublishing <=> publishTimer # <<>>)
    /\ [](isPublishing =>
            /\ publishConfirmDialogOpen
            /\ postToPublish # <<>>
            /\ publishTimer = <<postToPublish[1].id>>
            /\ postToPublish[1].status = "approved"
            /\ \E i \in DOMAIN allBlogPosts : allBlogPosts[i] = postToPublish[1])
    /\ [][isPublishing =>
            IF isPublishing'
            THEN UNCHANGED <<allBlogPosts, postToPublish, publishConfirmDialogOpen>>
            ELSE /\ DOMAIN allBlogPosts' = DOMAIN allBlogPosts
                 /\ \A i \in DOMAIN allBlogPosts :
                       IF allBlogPosts[i].id = postToPublish[1].id
                       THEN /\ allBlogPosts'[i].status = "published"
                            /\ allBlogPosts'[i].publishedAt # <<>>
                       ELSE allBlogPosts'[i] = allBlogPosts[i]
                 /\ ~publishConfirmDialogOpen'
                 /\ postToPublish' = <<>>
                 /\ rollbackNote' = <<>>
                 /\ activeTab' = "all"]_vars
    /\ [][\A i \in KeptPositions :
            (allBlogPosts[i].status # "published" /\ allBlogPosts'[i].status = "published")
                => (isPublishing /\ ~isPublishing' /\ allBlogPosts'[i].publishedAt # <<>>)]_vars

\* the timer has fired for a post published with a rollback note: the post is
\* published now, and the page shows All Posts with the publish state cleared
C9_Witness ==
    /\ \E i \in DOMAIN allBlogPosts :
          /\ allBlogPosts[i].status = "published"
          /\ allBlogPosts[i].publishedAt = <<NowISO>>
    /\ activeTab = "all"
    /\ ~isPublishing
    /\ ~publishConfirmDialogOpen
    /\ postToPublish = <<>>
    /\ rollbackNote = <<>>

\* C10: whenever a publication is pending for a post (isPublishing, the timer set for
\* its id), a state follows in which isPublishing is false and the post is published.
C10_PublicationCompletes ==
    \A n \in 1..(NumFixture + MaxCreated) :
        (isPublishing /\ publishTimer = <<PostId(n)>>)
            ~> (/\ ~isPublishing
                /\ \E i \in DOMAIN allBlogPosts :
                      allBlogPosts[i].id = PostId(n) /\ allBlogPosts[i].status = "published")

\* a publication is pending for the fixture's post #B002
C10_Witness ==
    /\ isPublishing
    /\ publishTimer = <<PostId(2)>>
    /\ \E i \in DOMAIN allBlogPosts :
          allBlogPosts[i].id = PostId(2) /\ allBlogPosts[i].status = "approved"


\* the fields of the form that the claim calls failing
C11_AllSpaces(t) == \A k \in DOMAIN t : t[k] \in {" ", "\t", "\n", "\r"}
C11_FailingFields ==
    {f \in {"title", "slug", "content"} : C11_AllSpaces(newBlogPost[f])}
    \cup (IF newBlogPost.content = <<"<", "p", ">", "<", "b", "r", ">", "<", "/", "p", ">">>
          THEN {"content"} ELSE {})
    \cup (IF newBlogPost.image \in {"", "/assets/blog1.jpg"} THEN {"image"} ELSE {})

\* C11: Save as Draft and Submit for Review, pressed with a form in which title, slug,
\* content or image fails, record an error for exactly each failing field and leave the
\* collection, the dialogs, postToEdit and the form as they were; with no failing
\* field they record no error and save: the dialog closes and the post is appended
\* (Create) or postToEdit is cleared (Edit).
C11_ValidationBlocksSaving ==
    [][(ClickSaveAsDraft \/ ClickSubmitForReview) =>
          IF C11_FailingFields # {}
          THEN /\ validationErrors' = C11_FailingFields
               /\ UNCHANGED <<allBlogPosts, createDialogOpen, editDialogOpen, postToEdit,
                              newBlogPost>>
          ELSE /\ validationErrors' = {}
               /\ ~createDialogOpen' /\ ~editDialogOpen'
               /\ postToEdit' = <<>>
               /\ IF postToEdit = <<>>
                  THEN Len(allBlogPosts') = Len(allBlogPosts) + 1
                  ELSE Len(allBlogPosts') = Len(allBlogPosts)]_vars

\* a save was refused in the Create dialog for a cleared slug and an empty editor,
\* the title and the image being valid
C11_Witness ==
    /\ createDialogOpen
    /\ validationErrors = {"slug", "content"}
    /\ newBlogPost.content = EmptyEditorContent
    /\ newBlogPost.title = <<"N", "!">>

\* C12: review preferences survive a reload: when the page is reloaded while the Review
\* Dashboard tab is active, the review status filter, the review author filter and the
\* review page after the reload are the ones before it.
C12_ReviewPreferencesSurviveReload ==
    [][(activeTab = "review" /\ Reload(ListFixture)) =>
           /\ reviewStatusFilter' = reviewStatusFilter
           /\ reviewAuthorFilter' = reviewAuthorFilter
           /\ currentPage' = currentPage]_vars

\* the page after such a reload: the All Posts tab over the seeded collection, with an
\* emptied status filter and the second review page restored from storage
C12_Witness ==
    /\ activeTab = "all"
    /\ allBlogPosts = ListFixture
    /\ reviewStatusFilter = <<>>
    /\ currentPage = 2
    /\ localStorage.page = <<ToStringText(2)>>
    /\ localStorage.filters = <<JSONStringify([status |-> <<>>, author |-> <<>>])>>


\* the useState initial values of everything but the review filters and the two page
\* numbers, over the seeded collection
ResetExceptPreferences ==
    /\ allBlogPosts = ListFixture
    /\ searchQuery = <<>>
    /\ selectedCategories = <<>>
    /\ showFilters = FALSE
    /\ activeTab = "all"
    /\ PageInteractive
    /\ postToDelete = <<>>
    /\ postToEdit = <<>>
    /\ postToPublish = <<>>
    /\ imagePreview = <<>>
    /\ newBlogPost = EmptyForm("draft")
    /\ validationErrors = {}
    /\ seoChecklist = EmptyChecklist
    /\ rollbackNote = <<>>
    /\ ~isPublishing
    /\ publishTimer = <<>>

\* C13: a reload resets the state except for the cached preferences: after it the
\* collection is the seeded one, the search query, the category selection, the active
\* tab and every dialog have their initial values, and what is carried over is the
\* review filters and the current page of each pagination.
C13_ReloadResetsAllButPreferences ==
    [][Reload(ListFixture) =>
           /\ ResetExceptPreferences'
           /\ reviewStatusFilter' = reviewStatusFilter
           /\ reviewAuthorFilter' = reviewAuthorFilter
           /\ currentPage' = currentPage
           /\ allPostsCurrentPage' = allPostsCurrentPage]_vars

\* the page after a reload that followed an author filter choice and a move to the
\* second page of All Posts
C13_Witness ==
    /\ ResetExceptPreferences
    /\ reviewAuthorFilter = <<"user-002">>
    /\ allPostsCurrentPage = 2
    /\ localStorage.allPage = <<ToStringText(2)>>


\* C14 as stated: a rejected post is editable back to draft: Edit on a rejected post by
\* a user allowed to edit it opens the Edit dialog on that post, and Save as Draft of
\* that dialog closes the dialog and leaves the post draft.
C14_RejectedAlwaysToDraft ==
    [][/\ \A i \in DOMAIN allBlogPosts :
              (/\ allBlogPosts[i].status = "rejected"
               /\ canEditPost(allBlogPosts[i])
               /\ ClickEdit(i) \/ ClickEditInReview(i))
              => /\ editDialogOpen'
                 /\ postToEdit' = <<allBlogPosts[i]>>
       /\ (/\ editDialogOpen
           /\ postToEdit # <<>>
           /\ postToEdit[1].status = "rejected"
           /\ ClickSaveAsDraft)
          => /\ ~editDialogOpen'
             /\ \A k \in DOMAIN allBlogPosts :
                    allBlogPosts[k].id = postToEdit[1].id
                        => allBlogPosts'[k].status = "draft"]_vars

\* C14, amended: a rejected post is editable back to draft when the form is valid: Edit
\* on a rejected post by a user allowed to edit it opens the Edit dialog on that post,
\* a Save as Draft of that dialog that validation accepts closes the dialog and leaves
\* the post draft, and one that validation refuses leaves the dialog open and the
\* collection as it was.
C14_RejectedEditableToDraft ==
    [][/\ \A i \in DOMAIN allBlogPosts :
              (/\ allBlogPosts[i].status = "rejected"
               /\ canEditPost(allBlogPosts[i])
               /\ ClickEdit(i) \/ ClickEditInReview(i))
              => /\ editDialogOpen'
                 /\ postToEdit' = <<allBlogPosts[i]>>
       /\ (/\ editDialogOpen
           /\ postToEdit # <<>>
           /\ postToEdit[1].status = "rejected"
           /\ validateBlogPost(newBlogPost) = {}
           /\ ClickSaveAsDraft)
          => /\ ~editDialogOpen'
             /\ \A k \in DOMAIN allBlogPosts :
                    allBlogPosts[k].id = postToEdit[1].id
                        => allBlogPosts'[k].status = "draft"
       /\ (/\ editDialogOpen
           /\ postToEdit # <<>>
           /\ postToEdit[1].status = "rejected"
           /\ validateBlogPost(newBlogPost) # {}
           /\ ClickSaveAsDraft)
          => /\ editDialogOpen'
             /\ allBlogPosts' = allBlogPosts]_vars

\* the Edit dialog open on a rejected post that was created with a title without word
\* characters: the dialog opened with an empty slug, a slug has been typed, validation
\* accepts the form, and Save as Draft can be chosen
C14_Witness ==
    /\ editDialogOpen
    /\ postToEdit # <<>>
    /\ postToEdit[1].status = "rejected"
    /\ generateSlug(postToEdit[1].title) = <<>>
    /\ newBlogPost.slug # <<>>
    /\ validateBlogPost(newBlogPost) = {}
    /\ \E k \in DOMAIN allBlogPosts : allBlogPosts[k] = postToEdit[1]


\* C15: post ids are unique: in every reachable state no two posts of the collection
\* have the same id.
C15_PostIdsUnique ==
    \A i, j \in DOMAIN allBlogPosts :
        allBlogPosts[i].id = allBlogPosts[j].id => i = j


\* C16: the current page is always a valid page: in every reachable state the All Posts
\* page lies in 1..max(1, allPostsTotalPages) and the review page lies in
\* 1..max(1, totalPages).
C16_CurrentPageValid ==
    /\ allPostsCurrentPage \in 1..Max(1, allPostsTotalPages)
    /\ currentPage \in 1..Max(1, totalPages)


\* C17: creating a post appends exactly one post and changes nothing else in the
\* collection: a valid Save as Draft from the Create dialog adds one draft post, a valid
\* Submit for Review adds one pending_review post; the new post is authored by the
\* current user, every earlier post is unchanged in its position, and the Create dialog
\* is closed with the form reset.
C17_CreateAppendsOnePost ==
    [][\A st \in {"draft", "pending_review"} :
          (/\ createDialogOpen
           /\ C11_FailingFields = {}
           /\ IF st = "draft" THEN ClickSaveAsDraft ELSE ClickSubmitForReview)
          => /\ Len(allBlogPosts') = Len(allBlogPosts) + 1
             /\ SubSeq(allBlogPosts', 1, Len(allBlogPosts)) = allBlogPosts
             /\ allBlogPosts'[Len(allBlogPosts')].status = st
             /\ allBlogPosts'[Len(allBlogPosts')].authorId = "user-001"
             /\ allBlogPosts'[Len(allBlogPosts')].authorName = "John Doe"
             /\ ~createDialogOpen'
             /\ newBlogPost' = EmptyForm(st)
             /\ imagePreview' = <<>>
             /\ validationErrors' = {}]_vars

\* a post submitted for review from the Create dialog: it is the last of the collection,
\* pending_review, by the current user, and the dialog is closed on a reset form
C17_Witness ==
    /\ Len(allBlogPosts) = NumFixture + 1
    /\ allBlogPosts[Len(allBlogPosts)].status = "pending_review"
    /\ allBlogPosts[Len(allBlogPosts)].createdAt = NowISO
    /\ allBlogPosts[Len(allBlogPosts)].authorId = currentUserId
    /\ SubSeq(allBlogPosts, 1, NumFixture) = Fixture
    /\ ~createDialogOpen
    /\ newBlogPost = EmptyForm("pending_review")


\* C18: a post leaves the collection only through a confirmed delete: a delete request,
\* and a Cancel or dismissal of the Delete dialog, remove nothing, and the latter clears
\* postToDelete; confirming removes exactly the one post selected and leaves the others
\* unchanged and in order.
C18_OnlyConfirmedDeleteRemoves ==
    [][/\ (\E i \in DOMAIN allBlogPosts : ClickDelete(i)) => allBlogPosts' = allBlogPosts
       /\ CloseDeleteDialog => allBlogPosts' = allBlogPosts /\ postToDelete' = <<>>
       /\ (Len(allBlogPosts') < Len(allBlogPosts))
              => deleteDialogOpen /\ postToDelete # <<>> /\ confirmDelete
       /\ (deleteDialogOpen /\ postToDelete # <<>> /\ confirmDelete)
              => \E i \in DOMAIN allBlogPosts :
                     /\ allBlogPosts[i] = postToDelete[1]
                     /\ allBlogPosts' = RemoveAt(allBlogPosts, i)]_vars


\* C19: filter and search changes reset to the first page: a step of the page, other
\* than a reload, that changes the search query or the selected categories sets the
\* All Posts page to 1, one that changes the review status filter or the review author
\* filter sets the review page to 1, and none of them changes the collection.
C19_FilterChangesResetPage ==
    [][~Reload(ListFixture) =>
          /\ (searchQuery' # searchQuery \/ selectedCategories' # selectedCategories)
                 => allPostsCurrentPage' = 1 /\ allBlogPosts' = allBlogPosts
          /\ (reviewStatusFilter' # reviewStatusFilter
                 \/ reviewAuthorFilter' # reviewAuthorFilter)
                 => currentPage' = 1 /\ allBlogPosts' = allBlogPosts]_vars

\* a search typed and a category chosen while the second page of All Posts was stored
\* as the page to show: the page is the first again
C19_Witness ==
    /\ searchQuery = <<"A">>
    /\ selectedCategories = <<<<"B">>>>
    /\ allPostsCurrentPage = 1
    /\ localStorage.allPage = <<ToStringText(1)>>
    /\ Len(allBlogPosts) = NumListFixture


\* the same letter, whatever its case: equal, or one the capital of the other (the
\* capital sigma is the capital of both small sigmas)
C20_SameLetter(a, b) ==
    \/ a = b
    \/ \E n \in DOMAIN UpperLetters : {a, b} = {UpperLetters[n], LowerLetters[n]}
    \/ \E n \in DOMAIN Latin1UpperLetters :
           {a, b} = {Latin1UpperLetters[n], Latin1LowerLetters[n]}
    \/ {a, b} \in {{"Σ", "σ"}, {"Σ", "ς"}}

\* text contains the query case-insensitively
C20_Contains(text, query) ==
    \E offset \in 0..(Len(text) - Len(query)) :
        \A k \in 1..Len(query) : C20_SameLetter(text[offset + k], query[k])

C20_Member(x, chosen) == chosen = <<>> \/ \E k \in DOMAIN chosen : chosen[k] = x

\* the positions of the posts the All Posts list is to hold
C20_AllPostsExpected ==
    {i \in DOMAIN allBlogPosts :
        /\ C20_Member(allBlogPosts[i].category, selectedCategories)
        /\ \/ searchQuery = <<>>
           \/ C20_Contains(allBlogPosts[i].title, searchQuery)
           \/ C20_Contains(allBlogPosts[i].content, searchQuery)
           \/ C20_Contains(allBlogPosts[i].category, searchQuery)}

\* the positions of the posts the review list is to hold
C20_ReviewExpected ==
    {i \in DOMAIN allBlogPosts :
        /\ C20_Member(allBlogPosts[i].status, reviewStatusFilter)
        /\ C20_Member(allBlogPosts[i].authorId, reviewAuthorFilter)
        /\ \/ C20_Contains(allBlogPosts[i].title, searchQuery)
           \/ C20_Contains(allBlogPosts[i].content, searchQuery)}

\* idx lists exactly the positions of expected, in collection order
C20_ListsInOrder(idx, expected) ==
    /\ {idx[k] : k \in DOMAIN idx} = expected
    /\ \A j, k \in DOMAIN idx : j < k => idx[j] < idx[k]

\* C20: list filtering matches its definition: the All Posts list is exactly the posts,
\* in collection order, whose category is selected (any when none is) and whose title,
\* content or category contains the search query case-insensitively (any when it is
\* empty); the review list is exactly the posts whose status and authorId are in their
\* filters (any when empty) and whose title or content contains the query.
C20_ListsMatchDefinition ==
    /\ C20_ListsInOrder(blogPostsIdx, C20_AllPostsExpected)
    /\ C20_ListsInOrder(reviewPostsIdx, C20_ReviewExpected)


\* the posts of list at positions (p - 1) * 10 + 1 .. p * 10, as far as the list goes
C21_Run(list, p) ==
    LET from == (p - 1) * 10 + 1
        upto == IF p * 10 < Len(list) THEN p * 10 ELSE Len(list)
    IN  [k \in 1..(IF upto >= from THEN upto - from + 1 ELSE 0) |-> list[from + k - 1]]

\* pagination of list, shown at page current with total pages, partitions it
C21_Partitions(list, shown, current, total) ==
    /\ shown = C21_Run(list, current)
    /\ Len(shown) <= 10
    /\ total * 10 >= Len(list)
    /\ total = 0 \/ (total - 1) * 10 < Len(list)
    /\ \A p \in 1..total :
           /\ paginate(list, p, 10) = C21_Run(list, p)
           /\ Len(paginate(list, p, 10)) \in 1..10
    /\ \A k \in DOMAIN list :
           Cardinality({pj \in (1..total) \X (1..10) :
                           /\ pj[2] <= Len(paginate(list, pj[1], 10))
                           /\ paginate(list, pj[1], 10)[pj[2]] = list[k]}) = 1

\* C21: pagination partitions the filtered list: in each tab the page shown for page
\* number p is the run of filtered posts at positions (p-1)*10+1 .. p*10, of at most 10
\* posts, the number of pages is ceil(count / 10), and pages 1..totalPages together
\* hold every filtered post exactly once.
C21_PaginationPartitions ==
    /\ C21_Partitions(blogPostsIdx, paginatedBlogPostsIdx, allPostsCurrentPage,
                      allPostsTotalPages)
    /\ C21_Partitions(reviewPostsIdx, paginatedReviewPostsIdx, currentPage, totalPages)

\* both tables on their second page, each over the whole seeded collection
C21_Witness ==
    /\ Len(blogPostsIdx) = NumListFixture
    /\ Len(reviewPostsIdx) = NumListFixture
    /\ allPostsCurrentPage = 2
    /\ currentPage = 2
    /\ Len(paginatedBlogPostsIdx) = NumListFixture - 10
    /\ paginatedReviewPostsIdx[1] = 11


\* a Save as Draft or Submit for Review of the Edit dialog that validation accepts
C22_SuccessfulEditSave ==
    /\ editDialogOpen
    /\ postToEdit # <<>>
    /\ C11_FailingFields = {}
    /\ ClickSaveAsDraft \/ ClickSubmitForReview

\* C22: editing preserves a post's identity and provenance: a successful save from the
\* Edit dialog leaves the edited post's id, authorId, authorName, createdAt, publishedAt
\* and position unchanged, changes no other post and keeps the number of posts.
C22_EditPreservesIdentity ==
    [][C22_SuccessfulEditSave =>
          /\ Len(allBlogPosts') = Len(allBlogPosts)
          /\ \E i \in DOMAIN allBlogPosts :
                 /\ allBlogPosts[i] = postToEdit[1]
                 /\ allBlogPosts'[i].id = allBlogPosts[i].id
                 /\ allBlogPosts'[i].authorId = allBlogPosts[i].authorId
                 /\ allBlogPosts'[i].authorName = allBlogPosts[i].authorName
                 /\ allBlogPosts'[i].createdAt = allBlogPosts[i].createdAt
                 /\ allBlogPosts'[i].publishedAt = allBlogPosts[i].publishedAt
                 /\ \A j \in DOMAIN allBlogPosts \ {i} :
                        allBlogPosts'[j] = allBlogPosts[j]]_vars


\* C23: an edit stores what the form holds: after a successful save from the Edit
\* dialog the stored post's category, title, content, tags, slug, seoTitle,
\* seoDescription and seoKeywords are the values of the form at the moment of saving,
\* also when category, seoTitle or seoDescription was cleared.
C23_EditStoresForm ==
    [][C22_SuccessfulEditSave =>
          \A i \in DOMAIN allBlogPosts :
              allBlogPosts[i] = postToEdit[1] =>
                  \A f \in {"category", "title", "content", "tags", "slug", "seoTitle",
                            "seoDescription", "seoKeywords"} :
                      allBlogPosts'[i][f] = newBlogPost[f]]_vars


====
